---------------------------- MODULE Spec2Model ----------------------------
(***************************************************************************)
(* Token lifecycle of contrib/oauth2/mutt_oauth2.py.                       *)
(*                                                                         *)
(* The script is module-level code run once per invocation.  An invocation *)
(* is a process p; its position in the script is pc[p].  The token file,   *)
(* the wall clock and the number of invocations are shared.  Spec lets one *)
(* process run invocation after invocation (the documented use).           *)
(*                                                                         *)
(* Text is modelled as follows.  Opaque strings (tokens, ids, hosts) are   *)
(* TLA+ strings.  Strings the code parses (pasted URLs, request paths) are *)
(* sequences of symbols; a percent escape is one symbol.  A timestamp in   *)
(* ISO format is a sequence of decimal digits, '' is the empty sequence.   *)
(* A dict is a function from keys to values, {} is the empty function.     *)
(***************************************************************************)
EXTENDS Integers, Sequences, FiniteSets, TLC

(***************************************************************************)
(* Bounds of the model.                                                    *)
(***************************************************************************)
MaxRuns == 2
MaxTime == 2
MaxPolls == 3

Procs == {1, 2}

(***************************************************************************)
(* Program constants.                                                      *)
(***************************************************************************)
OwnerRW == 384
PermMask == 511
S_IFREG == 32768
ImapPort == 993
PopPort == 995
SmtpPort == 587

VARIABLES
    now,        \* the wall clock read by datetime.now()
    runs,       \* invocations started so far
    file,       \* the token file: [exists, mode, content]
    pc,         \* pc[p]: position of invocation p in the script
    args,       \* args[p]: the parsed command line
    token,      \* token[p]: the global dict `token`
    registration, \* registration[p]: the selected (and tenant-edited) registration
    params,     \* params[p]: the request parameter dict `p`
    verifier,   \* verifier[p]: the PKCE verifier
    response,   \* response[p]: the decoded body of the last HTTP exchange
    polls,      \* polls[p]: iterations of the device-code loop so far
    authcode,   \* authcode[p]: the authorization code obtained
    interval,   \* interval[p]: the poll interval the provider declared
    io,         \* io[p]: the external effects of the invocation, in order
    exitCode    \* exitCode[p]: -1 while running, else the exit status

vars == <<now, runs, file, pc, args, token, registration, params, verifier,
          response, polls, authcode, interval, io, exitCode>>

(***************************************************************************)
(* Dicts.                                                                  *)
(***************************************************************************)
EmptyDict == <<>>

Has(d, k) == k \in DOMAIN d

\* d[k] = v, adding the key when absent
Put(d, k, v) == [x \in (DOMAIN d) \cup {k} |-> IF x = k THEN v ELSE d[x]]

\* d.update(e)
Update(d, e) == [x \in (DOMAIN d) \cup (DOMAIN e) |-> IF x \in DOMAIN e THEN e[x] ELSE d[x]]

\* del d[k] for every k of ks
Del(d, ks) == [x \in (DOMAIN d) \ ks |-> d[x]]


(***************************************************************************)
(* Conversions.                                                            *)
(***************************************************************************)
RECURSIVE BitAnd(_, _)
\* a & b on non-negative integers
BitAnd(a, b) ==
    IF a = 0 \/ b = 0 THEN 0
    ELSE (a % 2) * (b % 2) + 2 * BitAnd(a \div 2, b \div 2)

\* datetime.isoformat(): fixed-width decimal text of a time
IsoFormat(t) == <<t \div 10, t % 10>>

\* datetime.fromisoformat()
FromIsoFormat(s) == s[1] * 10 + s[2]

\* The keys of the credential record, in the order the first run inserts them.
KeyOrder == <<"registration", "authflow", "email", "access_token",
              "access_token_expiration", "refresh_token", "client_id",
              "client_secret", "tenant", "redirect_uri">>

\* Mutant of json.dumps(token): members with an empty value are left out.
JsonDumpsSparse(d) ==
    LET ks == SelectSeq(KeyOrder, LAMBDA k : k \in DOMAIN d /\ d[k] # "")
    IN  [i \in 1..Len(ks) |-> <<ks[i], d[ks[i]]>>]

\* json.dumps(token): the text as the sequence of its key/value members
JsonDumps(d) ==
    LET ks == SelectSeq(KeyOrder, LAMBDA k : k \in DOMAIN d)
    IN  [i \in 1..Len(ks) |-> <<ks[i], d[ks[i]]>>]

\* json.loads(text): a later member with the same key wins
JsonLoads(b) ==
    [k \in {b[i][1] : i \in DOMAIN b} |->
        b[CHOOSE i \in DOMAIN b : b[i][1] = k /\ \A j \in DOMAIN b : b[j][1] = k => j <= i][2]]

\* The encryption and decryption pipes, when they exit 0.
Encrypt(plain) == <<"ciphertext", plain>>
Decrypt(cipher) == cipher[2]

(***************************************************************************)
(* The provider registrations.  A URL is the sequence of its segments, so  *)
(* that str.replace("common", tenant, 1) has something to act on.          *)
(***************************************************************************)
registrations ==
    [google |->
        [authorize_endpoint |-> <<"https://accounts.google.com/o/oauth2/auth">>,
         devicecode_endpoint |-> <<"https://oauth2.googleapis.com/device/code">>,
         token_endpoint |-> <<"https://accounts.google.com/o/oauth2/token">>,
         redirect_uri |-> <<"urn:ietf:wg:oauth:2.0:oob">>,
         imap_endpoint |-> "imap.gmail.com",
         pop_endpoint |-> "pop.gmail.com",
         smtp_endpoint |-> "smtp.gmail.com",
         sasl_method |-> "OAUTHBEARER",
         scope |-> "https://mail.google.com/"],
     microsoft |->
        [authorize_endpoint |-> <<"https://login.microsoftonline.com/", "common", "/oauth2/v2.0/authorize">>,
         devicecode_endpoint |-> <<"https://login.microsoftonline.com/", "common", "/oauth2/v2.0/devicecode">>,
         token_endpoint |-> <<"https://login.microsoftonline.com/", "common", "/oauth2/v2.0/token">>,
         redirect_uri |-> <<"https://login.microsoftonline.com/", "common", "/oauth2/nativeclient">>,
         tenant |-> "common",
         imap_endpoint |-> "outlook.office365.com",
         pop_endpoint |-> "outlook.office365.com",
         smtp_endpoint |-> "smtp.office365.com",
         sasl_method |-> "XOAUTH2",
         scope |-> "offline_access IMAP.AccessAsUser.All POP.AccessAsUser.All SMTP.Send"]]

\* s.replace(old, new, 1) on a segmented string
ReplaceFirst(s, old, new) ==
    IF \E i \in DOMAIN s : s[i] = old
    THEN LET i == CHOOSE j \in DOMAIN s : s[j] = old /\ \A k \in DOMAIN s : s[k] = old => j <= k
         IN  [s EXCEPT ![i] = new]
    ELSE s

(***************************************************************************)
(* The token file.                                                         *)
(***************************************************************************)
NoFile == [exists |-> FALSE, mode |-> 0, content |-> <<>>]

\* 0o777 & path.stat().st_mode
PermBits(mode) == BitAnd(PermMask, mode)

\* Mutant of the test of lines 254 and 270: only the owner bits are compared.
UnsafeModeOwnerOnly(mode) == BitAnd(448, mode) # OwnerRW

\* The test of lines 254 and 270: the mode is not 0o600.
UnsafeMode(mode) == PermBits(mode) # OwnerRW

\* path.touch(mode=0o600) under a process umask, when the path is absent
Touch(f, umask) ==
    IF f.exists THEN f
    ELSE [exists |-> TRUE,
          mode |-> S_IFREG + BitAnd(OwnerRW, PermMask - umask),
          content |-> <<>>]

\* An external effect of an invocation.
Ev(op, arg) == [op |-> op, arg |-> arg]

\* Mutant of writetokenfile(): a failing encryption pipe is passed over.
WriteTokenFileLenient(f, d, umask, encOk) ==
    LET g == Touch(f, umask)
        touched == IF f.exists THEN <<>> ELSE <<Ev("touch", g.mode)>>
    IN  IF UnsafeMode(g.mode)
        THEN [file |-> g, ok |-> FALSE,
              events |-> touched \o <<Ev("die", "Token file has unsafe mode")>>]
        ELSE IF ~encOk
        THEN [file |-> g, ok |-> TRUE,
              events |-> touched \o <<Ev("encrypt", JsonDumps(d))>>]
        ELSE [file |-> [g EXCEPT !.content = Encrypt(JsonDumps(d))], ok |-> TRUE,
              events |-> touched \o <<Ev("encrypt", JsonDumps(d)),
                                      Ev("write", Encrypt(JsonDumps(d)))>>]

\* writetokenfile(): the file it leaves, whether it returned, and its effects.
\* encOk: the encryption pipe exits 0.
WriteTokenFile(f, d, umask, encOk) ==
    LET g == Touch(f, umask)
        touched == IF f.exists THEN <<>> ELSE <<Ev("touch", g.mode)>>
    IN  IF UnsafeMode(g.mode)
        THEN [file |-> g, ok |-> FALSE,
              events |-> touched \o <<Ev("die", "Token file has unsafe mode")>>]
        ELSE IF ~encOk
        THEN [file |-> g, ok |-> FALSE,
              events |-> touched \o <<Ev("encrypt", JsonDumps(d)),
                                      Ev("die", "CalledProcessError")>>]
        ELSE [file |-> [g EXCEPT !.content = Encrypt(JsonDumps(d))], ok |-> TRUE,
              events |-> touched \o <<Ev("encrypt", JsonDumps(d)),
                                      Ev("write", Encrypt(JsonDumps(d)))>>]

(***************************************************************************)
(* access_token_valid() and update_tokens().                               *)
(***************************************************************************)
\* Mutant of access_token_valid(): <= for <.
AccessTokenValidAtExpiration(d, t) ==
    LET token_exp == d["access_token_expiration"]
    IN  token_exp # <<>> /\ t <= FromIsoFormat(token_exp)

\* access_token_valid() on record d at time t
AccessTokenValid(d, t) ==
    LET token_exp == d["access_token_expiration"]
    IN  token_exp # <<>> /\ t < FromIsoFormat(token_exp)

\* Mutant of update_tokens(r): the whole response is merged into the record.
UpdatedTokenWhole(d, r, t) ==
    IF ~Has(r, "access_token") THEN d
    ELSE LET a == Update(d, r)
         IN  IF ~Has(r, "expires_in") THEN a
             ELSE Put(a, "access_token_expiration", IsoFormat(t + r["expires_in"]))

\* Mutant of update_tokens(r): a response without refresh_token empties the field.
UpdatedTokenClobbering(d, r, t) ==
    IF ~Has(r, "access_token") THEN d
    ELSE LET a == Put(d, "access_token", r["access_token"])
         IN  IF ~Has(r, "expires_in") THEN a
             ELSE LET b == Put(a, "access_token_expiration", IsoFormat(t + r["expires_in"]))
                  IN  IF Has(r, "refresh_token")
                      THEN Put(b, "refresh_token", r["refresh_token"])
                      ELSE Put(b, "refresh_token", "")

\* Mutant of update_tokens(r): the expiration is not assigned.
UpdatedTokenStaleExpiration(d, r, t) ==
    IF ~Has(r, "access_token") THEN d
    ELSE LET a == Put(d, "access_token", r["access_token"])
         IN  IF ~Has(r, "expires_in") THEN a
             ELSE IF Has(r, "refresh_token")
                  THEN Put(a, "refresh_token", r["refresh_token"])
                  ELSE a

\* Mutant of update_tokens(r): the refresh token is never assigned.
UpdatedTokenKeepingRefresh(d, r, t) ==
    IF ~Has(r, "access_token") THEN d
    ELSE LET a == Put(d, "access_token", r["access_token"])
         IN  IF ~Has(r, "expires_in") THEN a
             ELSE Put(a, "access_token_expiration", IsoFormat(t + r["expires_in"]))

\* The assignments of update_tokens(r) at time t, up to the first KeyError.
UpdatedToken(d, r, t) ==
    IF ~Has(r, "access_token") THEN d
    ELSE LET a == Put(d, "access_token", r["access_token"])
         IN  IF ~Has(r, "expires_in") THEN a
             ELSE LET b == Put(a, "access_token_expiration", IsoFormat(t + r["expires_in"]))
                  IN  IF Has(r, "refresh_token")
                      THEN Put(b, "refresh_token", r["refresh_token"])
                      ELSE b

\* Mutant of update_tokens(r): the call of writetokenfile() is left out.
UpdateTokensUnsaved(d, f, r, t, umask, encOk) ==
    IF ~Has(r, "access_token") \/ ~Has(r, "expires_in")
    THEN [token |-> UpdatedToken(d, r, t), file |-> f, ok |-> FALSE,
          events |-> <<Ev("die", "KeyError")>>]
    ELSE [token |-> UpdatedToken(d, r, t), file |-> f, ok |-> TRUE,
          events |-> <<Ev("update", r)>>]

\* Mutant of update_tokens(r): what the response does have is saved before
\* the missing field is noticed.
UpdateTokensSavingPartly(d, f, r, t, umask, encOk) ==
    IF ~Has(r, "access_token") \/ ~Has(r, "expires_in")
    THEN LET w == WriteTokenFile(f, UpdatedToken(d, r, t), umask, encOk)
         IN  [token |-> UpdatedToken(d, r, t), file |-> w.file, ok |-> FALSE,
              events |-> w.events \o <<Ev("die", "KeyError")>>]
    ELSE LET w == WriteTokenFile(f, UpdatedToken(d, r, t), umask, encOk)
         IN  [token |-> UpdatedToken(d, r, t), file |-> w.file, ok |-> w.ok,
              events |-> <<Ev("update", r)>> \o w.events]

\* update_tokens(r): the record, the file, whether it returned, its effects.
UpdateTokens(d, f, r, t, umask, encOk) ==
    IF ~Has(r, "access_token") \/ ~Has(r, "expires_in")
    THEN [token |-> UpdatedToken(d, r, t), file |-> f, ok |-> FALSE,
          events |-> <<Ev("die", "KeyError")>>]
    ELSE LET w == WriteTokenFile(f, UpdatedToken(d, r, t), umask, encOk)
         IN  [token |-> UpdatedToken(d, r, t), file |-> w.file, ok |-> w.ok,
              events |-> <<Ev("update", r)>> \o w.events]

(***************************************************************************)
(* URL parsing.  A URL is a sequence of symbols: a scheme-and-host prefix, *)
(* the delimiters, percent escapes (one symbol each) and plain characters. *)
(***************************************************************************)
UrlPrefix == "https://localhost/"

\* urllib.parse.unquote of one symbol
UnquoteSym(c) ==
    CASE c = "%2B" -> "+"
      [] c = "%26" -> "&"
      [] c = "%23" -> "#"
      [] OTHER -> c

\* urllib.parse.unquote(s)
Unquote(s) == [i \in DOMAIN s |-> UnquoteSym(s[i])]

\* The first index of symbol c in s, or 0.
Find(s, c) ==
    IF \E i \in DOMAIN s : s[i] = c
    THEN CHOOSE i \in DOMAIN s : s[i] = c /\ \A j \in DOMAIN s : s[j] = c => i <= j
    ELSE 0

RECURSIVE Split(_, _)
\* s.split(c)
Split(s, c) ==
    IF Find(s, c) = 0 THEN <<s>>
    ELSE <<SubSeq(s, 1, Find(s, c) - 1)>> \o Split(SubSeq(s, Find(s, c) + 1, Len(s)), c)

\* urllib.parse.urlparse(s).query: the fragment is cut off first
UrlQuery(s) ==
    LET nofrag == IF Find(s, "#") = 0 THEN s ELSE SubSeq(s, 1, Find(s, "#") - 1)
    IN  IF Find(nofrag, "?") = 0 THEN <<>>
        ELSE SubSeq(nofrag, Find(nofrag, "?") + 1, Len(nofrag))

\* The decoding parse_qs applies to a name or a value.
QsDecode(s) == Unquote([i \in DOMAIN s |-> IF s[i] = "+" THEN " " ELSE s[i]])

\* urllib.parse.parse_qs(q).get(name, []): fields without "=" or with a blank
\* value are dropped
QsValues(q, name) ==
    LET fields == Split(q, "&")
        Name(f) == QsDecode(SubSeq(f, 1, Find(f, "=") - 1))
        Value(f) == QsDecode(SubSeq(f, Find(f, "=") + 1, Len(f)))
        kept == SelectSeq(fields, LAMBDA f : Find(f, "=") # 0 /\ Value(f) # <<>> /\ Name(f) = name)
    IN  [i \in DOMAIN kept |-> Value(kept[i])]

\* extract_auth_code(s)
ExtractAuthCode(s) ==
    IF s # <<>> /\ s[1] = UrlPrefix
    THEN LET code == QsValues(UrlQuery(Unquote(s)), <<"code">>)
         IN  IF code # <<>> THEN code[1] ELSE s
    ELSE s

\* MyHandler.do_GET: the authcode one request to the local server leaves
CallbackCode(path) ==
    LET code == QsValues(UrlQuery(path), <<"code">>)
    IN  IF code # <<>> THEN code[1] ELSE <<>>

(***************************************************************************)
(* Output formatting.                                                      *)
(***************************************************************************)
SOH == "\\1"

\* Mutant of build_sasl_string: SMTP on the port of SMTP_SSL, and the string
\* ended by one SOH.
BuildSaslStringSmtps(d, reg, protocol, user) ==
    LET u == IF user # "" THEN user ELSE d["email"]
        bearer_token == d["access_token"]
        host == CASE protocol = "imap" -> reg["imap_endpoint"]
                  [] protocol = "pop" -> reg["pop_endpoint"]
                  [] protocol = "smtp" -> reg["smtp_endpoint"]
                  [] OTHER -> ""
        port == CASE protocol = "imap" -> ImapPort
                  [] protocol = "pop" -> PopPort
                  [] protocol = "smtp" -> 465
                  [] OTHER -> 0
    IN  IF protocol \notin {"imap", "pop", "smtp"}
        THEN [ok |-> FALSE, s |-> <<"Unknown protocol ", protocol>>]
        ELSE IF reg["sasl_method"] = "OAUTHBEARER"
        THEN [ok |-> TRUE,
              s |-> <<"n,a=", u, ",", SOH, "host=", host, SOH, "port=", ToString(port), SOH,
                      "auth=Bearer ", bearer_token, SOH, SOH>>]
        ELSE IF reg["sasl_method"] = "XOAUTH2"
        THEN [ok |-> TRUE, s |-> <<"user=", u, SOH, "auth=Bearer ", bearer_token, SOH>>]
        ELSE [ok |-> FALSE, s |-> <<"Unknown SASL method ", reg["sasl_method"], ".">>]

\* build_sasl_string(protocol, user): [ok, s]; ~ok is sys.exit with the message s
BuildSaslString(d, reg, protocol, user) ==
    LET u == IF user # "" THEN user ELSE d["email"]
        bearer_token == d["access_token"]
        host == CASE protocol = "imap" -> reg["imap_endpoint"]
                  [] protocol = "pop" -> reg["pop_endpoint"]
                  [] protocol = "smtp" -> reg["smtp_endpoint"]
                  [] OTHER -> ""
        port == CASE protocol = "imap" -> ImapPort
                  [] protocol = "pop" -> PopPort
                  [] protocol = "smtp" -> SmtpPort
                  [] OTHER -> 0
    IN  IF protocol \notin {"imap", "pop", "smtp"}
        THEN [ok |-> FALSE, s |-> <<"Unknown protocol ", protocol>>]
        ELSE IF reg["sasl_method"] = "OAUTHBEARER"
        THEN [ok |-> TRUE,
              s |-> <<"n,a=", u, ",", SOH, "host=", host, SOH, "port=", ToString(port), SOH,
                      "auth=Bearer ", bearer_token, SOH, SOH>>]
        ELSE IF reg["sasl_method"] = "XOAUTH2"
        THEN [ok |-> TRUE, s |-> <<"user=", u, SOH, "auth=Bearer ", bearer_token, SOH, SOH>>]
        ELSE [ok |-> FALSE, s |-> <<"Unknown SASL method ", reg["sasl_method"], ".">>]

\* base64.standard_b64encode(s).decode()
Base64(s) == <<"base64", s>>

\* Mutant of lines 660-671: the SASL string goes out as it is, and the method
\* is joined to it without the space.
FormatOutputUnencoded(d, reg, format, protocol, user) ==
    LET sasl == BuildSaslString(d, reg, protocol, user)
    IN  IF format = "msasl"
        THEN [ok |-> sasl.ok, line |-> <<reg["sasl_method"], Base64(sasl.s)>>]
        ELSE IF format = "sasl"
        THEN [ok |-> sasl.ok, line |-> <<sasl.s>>]
        ELSE [ok |-> TRUE, line |-> <<d["access_token"]>>]

\* Lines 661-662, 665-666, 669-670: the label print(..., end='') puts before
\* the output under --verbose.
Label(format, verbose) ==
    IF ~verbose THEN <<>>
    ELSE <<Ev("print", CASE format = "msasl" -> "SASL Method and String: "
                         [] format = "sasl" -> "SASL String: "
                         [] OTHER -> "Access Token: ")>>

\* The line printed by lines 660-671: [ok, line]
FormatOutput(d, reg, format, protocol, user) ==
    LET sasl == BuildSaslString(d, reg, protocol, user)
    IN  IF format = "msasl"
        THEN [ok |-> sasl.ok, line |-> <<reg["sasl_method"], " ", Base64(sasl.s)>>]
        ELSE IF format = "sasl"
        THEN [ok |-> sasl.ok, line |-> <<Base64(sasl.s)>>]
        ELSE [ok |-> TRUE, line |-> <<d["access_token"]>>]

(***************************************************************************)
(* Inputs: the command line, the operator, the provider, the environment. *)
(***************************************************************************)
\* The command line with no option given: the defaults of argparse.
NoArgs ==
    [authorize |-> FALSE, authflow |-> "", email |-> "", provider |-> "", client_id |-> "",
     client_secret |-> "", tenant |-> "common", redirect_uri |-> <<>>]

\* Command lines: --authorize, --authflow, --email, --provider, --client-id,
\* --client-secret, --tenant, --redirect-uri.
CommandLines ==
    { NoArgs,
      [NoArgs EXCEPT !.authflow = "devicecode", !.email = "c@d.com",
                     !.provider = "microsoft", !.client_id = "cid2",
                     !.client_secret = "sec2", !.tenant = "consumers",
                     !.redirect_uri = <<"https://other">>],
      [NoArgs EXCEPT !.authorize = TRUE, !.redirect_uri = <<"https://localhost">>],
      [NoArgs EXCEPT !.authorize = TRUE, !.authflow = "devicecode",
                     !.provider = "microsoft", !.client_id = "cid2",
                     !.client_secret = "sec2", !.tenant = "consumers",
                     !.redirect_uri = <<"https://other">>],
      [NoArgs EXCEPT !.authorize = TRUE, !.authflow = "bogusflow", !.email = "c@d.com"] }
\* --format and --protocol, as given together.
OutputArgs ==
    { [format |-> c[1], protocol |-> c[2], verbose |-> v] :
        c \in {<<"token", "imap">>, <<"sasl", "pop">>, <<"msasl", "smtp">>}, v \in BOOLEAN }

\* What the operator answers to the prompts of a first run.
FirstRunAnswers ==
    { [provider |-> "google", flow |-> "authcode", email |-> "a@b.com",
       client_id |-> "cid", client_secret |-> "sec"],
      [provider |-> "microsoft", flow |-> "devicecode", email |-> "a@b.com",
       client_id |-> "cid", client_secret |-> "sec"],
      [provider |-> "microsoft", flow |-> "localhostauthcode", email |-> "a@b.com",
       client_id |-> "cid", client_secret |-> "sec"],
      [provider |-> "bogus", flow |-> "authcode", email |-> "a@b.com",
       client_id |-> "cid", client_secret |-> "sec"] }

Verifiers == {"v1", "v2"}
Ports == {"50001"}
Umasks == {18, 191}
Modes == {384, 420, 448}
SaveEnvs == [umask : Umasks, encOk : BOOLEAN, mode : Modes]

PastedInputs ==
    { <<>>,
      <<"A", "B", "1">>,
      <<UrlPrefix, "?", "code", "=", "A", "B", "1", "&", "state", "=", "x">>,
      <<UrlPrefix, "?", "code", "=", "A", "%2B", "B">>,
      <<UrlPrefix, "?", "error", "=", "x">> }

CallbackPaths ==
    { <<"/", "?", "code", "=", "A", "%2B", "B">>,
      <<"/", "?", "error", "=", "x">> }

TokenResponses ==
    { [access_token |-> "tok1", expires_in |-> 2, refresh_token |-> "ref1"],
      [access_token |-> "tok2", expires_in |-> 2],
      [access_token |-> "tok1", expires_in |-> 0, refresh_token |-> "ref2"],
      [access_token |-> "tok2", expires_in |-> 2, refresh_token |-> ""] }

MalformedResponses == {[access_token |-> "tok1"], [expires_in |-> 2]}

ExchangeResponses == TokenResponses \cup MalformedResponses \cup {[error |-> "invalid_grant"]}

\* Bodies that may also come with an HTTP error status (HTTPError, whose body is
\* read like any other), and the statuses a body may come with.
ErrorStatusBodies ==
    {[error |-> "invalid_grant"], [error |-> "invalid_client"],
     [access_token |-> "tok2", expires_in |-> 2]}
HttpErrors(r) == IF r \in ErrorStatusBodies THEN BOOLEAN ELSE {FALSE}

\* print(err.code, err.reason) on HTTPError
Reported(httpError) == IF httpError THEN <<Ev("print", "HTTPError")>> ELSE <<>>

PollResponses ==
    ExchangeResponses \cup
    {[error |-> e] : e \in {"authorization_pending", "authorization_declined", "expired_token"}}

DeviceResponses ==
    {[device_code |-> "dc1", user_code |-> "UC", verification_uri |-> "https://verify",
      message |-> "enter the code", interval |-> 1],
     [error |-> "invalid_client"]}

(***************************************************************************)
(* The state after construction: no invocation yet, no token file.        *)
(***************************************************************************)
Init ==
    /\ now = 0
    /\ runs = 0
    /\ file = NoFile
    /\ pc = [p \in Procs |-> "idle"]
    /\ args = [p \in Procs |-> NoArgs]
    /\ token = [p \in Procs |-> EmptyDict]
    /\ registration = [p \in Procs |-> EmptyDict]
    /\ params = [p \in Procs |-> EmptyDict]
    /\ verifier = [p \in Procs |-> ""]
    /\ response = [p \in Procs |-> EmptyDict]
    /\ polls = [p \in Procs |-> 0]
    /\ authcode = [p \in Procs |-> <<>>]
    /\ interval = [p \in Procs |-> 0]
    /\ io = [p \in Procs |-> <<>>]
    /\ exitCode = [p \in Procs |-> -1]

\* The invocation goes on at `next`, having had the effects `events`.
Goto(p, next, events) ==
    /\ pc' = [pc EXCEPT ![p] = next]
    /\ io' = [io EXCEPT ![p] = @ \o events]
    /\ UNCHANGED exitCode

\* sys.exit(status) or an uncaught exception, after the effects `events`.
Exit(p, status, events) ==
    /\ pc' = [pc EXCEPT ![p] = "done"]
    /\ io' = [io EXCEPT ![p] = @ \o events]
    /\ exitCode' = [exitCode EXCEPT ![p] = status]

\* An invocation starts: argparse (lines 207-249).
Start(p) ==
    /\ pc[p] = "idle"
    /\ runs < MaxRuns
    /\ runs' = runs + 1
    /\ \E a \in CommandLines : args' = [args EXCEPT ![p] = a]
    /\ pc' = [pc EXCEPT ![p] = "load"]
    /\ UNCHANGED <<now, file, token, registration, params, verifier, response, polls,
                   authcode, interval, io, exitCode>>

\* Lines 251-263: load the token file.  decOk: the decryption pipe exits 0.
LoadTokenFile(p) ==
    /\ pc[p] = "load"
    /\ UNCHANGED <<now, runs, file, args, registration, params, verifier, response,
                   polls, authcode, interval>>
    /\ IF ~file.exists
       THEN /\ Goto(p, "firstrun", <<>>)
            /\ UNCHANGED token
       ELSE IF UnsafeMode(file.mode)
       THEN /\ Exit(p, 1, <<Ev("die", "Token file has unsafe mode")>>)
            /\ UNCHANGED token
       ELSE \E decOk \in BOOLEAN :
            IF ~decOk
            THEN /\ Exit(p, 1, <<Ev("read", file.content), Ev("decrypt", file.content),
                                 Ev("die", "Difficulty decrypting token file")>>)
                 /\ UNCHANGED token
            ELSE IF file.content = <<>>
            THEN /\ Exit(p, 1, <<Ev("read", file.content), Ev("decrypt", file.content),
                                 Ev("die", "JSONDecodeError")>>)
                 /\ UNCHANGED token
            ELSE /\ token' = [token EXCEPT ![p] = JsonLoads(Decrypt(file.content))]
                 /\ Goto(p, IF JsonLoads(Decrypt(file.content)) = EmptyDict
                            THEN "firstrun" ELSE "resolve",
                         <<Ev("read", file.content), Ev("decrypt", file.content)>>)

\* Lines 286-302: the record a first run creates.
NewToken(a, answers) ==
    LET Or(x, y) == IF x # "" THEN x ELSE y
        base == [registration |-> Or(a.provider, answers.provider),
                 authflow |-> Or(a.authflow, answers.flow),
                 email |-> Or(a.email, answers.email),
                 access_token |-> "", access_token_expiration |-> <<>>,
                 refresh_token |-> "",
                 client_id |-> Or(a.client_id, answers.client_id),
                 client_secret |-> Or(a.client_secret, answers.client_secret)]
        t == IF base["registration"] = "microsoft" THEN Put(base, "tenant", a.tenant) ELSE base
    IN  IF a.redirect_uri # <<>> THEN Put(t, "redirect_uri", a.redirect_uri) ELSE t

\* Mutant of lines 280-303: the test of args.authorize is left out.
FirstRunUnguarded(p) ==
    /\ pc[p] = "firstrun"
    /\ UNCHANGED <<now, runs, args, registration, params, verifier, response, polls,
                   authcode, interval>>
    /\ \E pipeGiven \in BOOLEAN :
         IF ~pipeGiven
         THEN /\ Exit(p, 1, <<Ev("die", "You need to provide a suitable --encryption-pipe")>>)
              /\ UNCHANGED <<token, file>>
         ELSE \E a \in FirstRunAnswers, umask \in Umasks, encOk \in BOOLEAN :
              LET d == NewToken(args[p], a)
                  w == WriteTokenFile(file, d, umask, encOk)
              IN  /\ token' = [token EXCEPT ![p] = d]
                  /\ file' = w.file
                  /\ IF w.ok THEN Goto(p, "resolve", w.events) ELSE Exit(p, 1, w.events)

\* Mutant of lines 280-303: the new record is not saved before the flow.
FirstRunUnsaved(p) ==
    /\ pc[p] = "firstrun"
    /\ UNCHANGED <<now, runs, args, registration, params, verifier, response, polls,
                   authcode, interval, file>>
    /\ IF ~args[p].authorize
       THEN /\ Exit(p, 1, <<Ev("die", "You must run script with --authorize")>>)
            /\ UNCHANGED token
       ELSE \E a \in FirstRunAnswers :
              /\ token' = [token EXCEPT ![p] = NewToken(args[p], a)]
              /\ Goto(p, "resolve", <<>>)

\* Lines 280-303: with an empty record, require --authorize and create the record.
FirstRun(p) ==
    /\ pc[p] = "firstrun"
    /\ UNCHANGED <<now, runs, args, registration, params, verifier, response, polls,
                   authcode, interval>>
    /\ IF ~args[p].authorize
       THEN /\ Exit(p, 1, <<Ev("die", "You must run script with --authorize")>>)
            /\ UNCHANGED <<token, file>>
       ELSE \E pipeGiven \in BOOLEAN :
            IF ~pipeGiven
            THEN /\ Exit(p, 1, <<Ev("die", "You need to provide a suitable --encryption-pipe")>>)
                 /\ UNCHANGED <<token, file>>
            ELSE \E a \in FirstRunAnswers, umask \in Umasks, encOk \in BOOLEAN :
                 LET d == NewToken(args[p], a)
                     w == WriteTokenFile(file, d, umask, encOk)
                 IN  /\ token' = [token EXCEPT ![p] = d]
                     /\ file' = w.file
                     /\ IF w.ok THEN Goto(p, "resolve", w.events) ELSE Exit(p, 1, w.events)

\* Lines 309-312: a Microsoft record written without a tenant gets "common".
TenantDefaulted(d) ==
    IF d["registration"] = "microsoft" /\ ~Has(d, "tenant") THEN Put(d, "tenant", "common") ELSE d

\* Mutant of lines 313-319: the token endpoint keeps the default tenant.
ResolvedButTokenEndpoint(d) ==
    LET reg == registrations[d["registration"]]
        tenant == TenantDefaulted(d)["tenant"]
    IN  IF d["registration"] = "microsoft" /\ tenant # "common"
        THEN [reg EXCEPT !["authorize_endpoint"] = ReplaceFirst(@, "common", tenant),
                         !["devicecode_endpoint"] = ReplaceFirst(@, "common", tenant),
                         !["redirect_uri"] = ReplaceFirst(@, "common", tenant),
                         !["tenant"] = tenant]
        ELSE reg

\* Lines 308-319: the registration selected, with the tenant edited in.
Resolved(d) ==
    LET reg == registrations[d["registration"]]
        tenant == TenantDefaulted(d)["tenant"]
    IN  IF d["registration"] = "microsoft" /\ tenant # "common"
        THEN [reg EXCEPT !["authorize_endpoint"] = ReplaceFirst(@, "common", tenant),
                         !["devicecode_endpoint"] = ReplaceFirst(@, "common", tenant),
                         !["token_endpoint"] = ReplaceFirst(@, "common", tenant),
                         !["redirect_uri"] = ReplaceFirst(@, "common", tenant),
                         !["tenant"] = tenant]
        ELSE reg

\* Mutant of lines 305-319: an unknown provider name is taken for google.
ResolveRegistrationLenient(p) ==
    /\ pc[p] = "resolve"
    /\ UNCHANGED <<now, runs, file, args, params, verifier, response, polls, authcode,
                   interval>>
    /\ IF token[p]["registration"] \notin DOMAIN registrations
       THEN /\ UNCHANGED token
            /\ registration' = [registration EXCEPT ![p] = registrations["google"]]
            /\ Goto(p, IF args[p].authorize THEN "authorize" ELSE "refresh", <<>>)
       ELSE /\ token' = [token EXCEPT ![p] = TenantDefaulted(@)]
            /\ registration' = [registration EXCEPT ![p] = Resolved(token[p])]
            /\ Goto(p, IF args[p].authorize THEN "authorize" ELSE "refresh", <<>>)

\* Mutant of lines 305-319 and 395: with a token that is still valid the
\* authorization is skipped.
ResolveRegistrationCached(p) ==
    /\ pc[p] = "resolve"
    /\ UNCHANGED <<now, runs, file, args, params, verifier, response, polls, authcode,
                   interval>>
    /\ IF token[p]["registration"] \notin DOMAIN registrations
       THEN /\ Exit(p, 1, <<Ev("die", "ERROR: Unknown registration")>>)
            /\ UNCHANGED <<token, registration>>
       ELSE /\ token' = [token EXCEPT ![p] = TenantDefaulted(@)]
            /\ registration' = [registration EXCEPT ![p] = Resolved(token[p])]
            /\ Goto(p, IF args[p].authorize /\ ~AccessTokenValid(token[p], now)
                       THEN "authorize" ELSE "refresh", <<>>)

\* Lines 305-319: look the registration up.
ResolveRegistration(p) ==
    /\ pc[p] = "resolve"
    /\ UNCHANGED <<now, runs, file, args, params, verifier, response, polls, authcode,
                   interval>>
    /\ IF token[p]["registration"] \notin DOMAIN registrations
       THEN /\ Exit(p, 1, <<Ev("die", "ERROR: Unknown registration")>>)
            /\ UNCHANGED <<token, registration>>
       ELSE /\ token' = [token EXCEPT ![p] = TenantDefaulted(@)]
            /\ registration' = [registration EXCEPT ![p] = Resolved(token[p])]
            /\ Goto(p, IF args[p].authorize THEN "authorize" ELSE "refresh", <<>>)

\* Mutant of lines 322-324: --authflow is ignored.
AuthFlowStored(p) == token[p]["authflow"]

\* Lines 322-324: the flow of this invocation.
AuthFlow(p) == IF args[p].authflow # "" THEN args[p].authflow ELSE token[p]["authflow"]

\* Mutant of lines 326-329: --client-id, when given, replaces the record's client id.
BaseParamsFromArgs(p) ==
    LET id == IF args[p].client_id # "" THEN args[p].client_id ELSE token[p]["client_id"]
    IN  IF Has(registration[p], "tenant")
        THEN [client_id |-> id, tenant |-> registration[p]["tenant"]]
        ELSE [client_id |-> id]

\* Lines 326-329: baseparams.
BaseParams(p) ==
    IF Has(registration[p], "tenant")
    THEN [client_id |-> token[p]["client_id"], tenant |-> registration[p]["tenant"]]
    ELSE [client_id |-> token[p]["client_id"]]

\* An HTTP request: the endpoint and the form data.
Http(url, data) == Ev("http", [url |-> url, data |-> data])

\* The file as the next stat finds it: its mode may have been changed meanwhile.
Tampered(f, mode) == IF f.exists THEN [f EXCEPT !.mode = S_IFREG + mode] ELSE f

\* Mutant of update_tokens as called at lines 602 and 632: the flow of this
\* run is stored with the tokens.
DoUpdateTokensStoringFlow(p, r, t, pre, next, env) ==
    LET u == UpdateTokens([token[p] EXCEPT !["authflow"] = AuthFlow(p)],
                          Tampered(file, env.mode), r, t, env.umask, env.encOk)
    IN  /\ token' = [token EXCEPT ![p] = u.token]
        /\ file' = u.file
        /\ IF u.ok THEN Goto(p, next, pre \o u.events) ELSE Exit(p, 1, pre \o u.events)

\* update_tokens(r) at time t inside invocation p, after the effects `pre`;
\* the invocation goes on at `next` when it returns.  env: the umask, whether the
\* encryption pipe exits 0, and the mode somebody may have given the file.
DoUpdateTokens(p, r, t, pre, next, env) ==
    LET u == UpdateTokens(token[p], Tampered(file, env.mode), r, t, env.umask, env.encOk)
    IN  /\ token' = [token EXCEPT ![p] = u.token]
        /\ file' = u.file
        /\ IF u.ok THEN Goto(p, next, pre \o u.events) ELSE Exit(p, 1, pre \o u.events)

\* Line 401: the PKCE challenge of a verifier.
Challenge(v) == <<"S256", v>>

\* Lines 396-419: the parameters of the authorization URL.
AuthorizeParams(p, v, redirect_uri) ==
    Update(Put(BaseParams(p), "scope", registration[p]["scope"]),
           [login_hint |-> token[p]["email"],
            response_type |-> "code",
            redirect_uri |-> redirect_uri,
            code_challenge |-> Challenge(v),
            code_challenge_method |-> "S256"])

\* Lines 402-404: the registration's redirect URI unless the record overrides it.
RedirectUri(p) ==
    IF Has(token[p], "redirect_uri") THEN token[p]["redirect_uri"]
    ELSE registration[p]["redirect_uri"]

\* Lines 399-436, 513-516, flow authcode: show the URL, read the operator's input.
AuthCodePrompt(p) ==
    /\ pc[p] = "authorize"
    /\ AuthFlow(p) = "authcode"
    /\ UNCHANGED <<now, runs, file, args, token, registration, response, polls, interval>>
    /\ \E v \in Verifiers, user_input \in PastedInputs :
         LET q == AuthorizeParams(p, v, RedirectUri(p))
             events == <<Ev("browser", [url |-> registration[p]["authorize_endpoint"], data |-> q]),
                         Ev("input", user_input)>>
         IN  /\ verifier' = [verifier EXCEPT ![p] = v]
             /\ params' = [params EXCEPT ![p] = q]
             /\ authcode' = [authcode EXCEPT ![p] = ExtractAuthCode(user_input)]
             /\ IF ExtractAuthCode(user_input) = <<>>
                THEN Exit(p, 1, events \o <<Ev("die", "Did not obtain an authcode.")>>)
                ELSE Goto(p, "exchange", events)

\* Mutant of lines 507-511: the server waits for a second request when the
\* first brought no code.
LocalhostCallbackWaiting(p) ==
    /\ pc[p] = "authorize"
    /\ AuthFlow(p) = "localhostauthcode"
    /\ UNCHANGED <<now, runs, file, args, token, registration, response, polls, interval>>
    /\ \E v \in Verifiers, listen_port \in Ports, interrupted \in BOOLEAN,
          path \in CallbackPaths, second \in CallbackPaths :
         LET q == AuthorizeParams(p, v, <<"http://localhost:", listen_port, "/">>)
             again == ~interrupted /\ CallbackCode(path) = <<>>
             code == IF interrupted THEN <<>>
                     ELSE IF again THEN CallbackCode(second) ELSE CallbackCode(path)
             events == <<Ev("bind", listen_port),
                         Ev("browser", [url |-> registration[p]["authorize_endpoint"], data |-> q]),
                         Ev("handle_request", IF interrupted THEN <<>> ELSE path)>>
                       \o IF again THEN <<Ev("handle_request", second)>> ELSE <<>>
         IN  /\ verifier' = [verifier EXCEPT ![p] = v]
             /\ params' = [params EXCEPT ![p] = q]
             /\ authcode' = [authcode EXCEPT ![p] = code]
             /\ IF code = <<>>
                THEN Exit(p, 1, events \o <<Ev("die", "Did not obtain an authcode.")>>)
                ELSE Goto(p, "exchange", events)

\* Lines 399-429, 438-516, flow localhostauthcode: serve one request on a free port.
LocalhostCallback(p) ==
    /\ pc[p] = "authorize"
    /\ AuthFlow(p) = "localhostauthcode"
    /\ UNCHANGED <<now, runs, file, args, token, registration, response, polls, interval>>
    /\ \E v \in Verifiers, listen_port \in Ports, interrupted \in BOOLEAN, path \in CallbackPaths :
         LET q == AuthorizeParams(p, v, <<"http://localhost:", listen_port, "/">>)
             code == IF interrupted THEN <<>> ELSE CallbackCode(path)
             events == <<Ev("bind", listen_port),
                         Ev("browser", [url |-> registration[p]["authorize_endpoint"], data |-> q]),
                         Ev("handle_request", IF interrupted THEN <<>> ELSE path)>>
         IN  /\ verifier' = [verifier EXCEPT ![p] = v]
             /\ params' = [params EXCEPT ![p] = q]
             /\ authcode' = [authcode EXCEPT ![p] = code]
             /\ IF code = <<>>
                THEN Exit(p, 1, events \o <<Ev("die", "Did not obtain an authcode.")>>)
                ELSE Goto(p, "exchange", events)

\* Mutant of lines 517-522: the redirect URI is the registration's, and the
\* challenge method stays in the request.
ExchangeParamsDefaultRedirect(p) ==
    Update(Del(params[p], {"response_type", "login_hint", "code_challenge"}),
           [grant_type |-> "authorization_code",
            code |-> authcode[p],
            client_secret |-> token[p]["client_secret"],
            code_verifier |-> verifier[p],
            redirect_uri |-> registration[p]["redirect_uri"]])

\* Lines 518-523: the parameters of the code exchange.
ExchangeParams(p) ==
    Update(Del(params[p], {"response_type", "login_hint", "code_challenge",
                           "code_challenge_method"}),
           [grant_type |-> "authorization_code",
            code |-> authcode[p],
            client_secret |-> token[p]["client_secret"],
            code_verifier |-> verifier[p]])

\* Mutant of lines 524-539: an exchange answered by an error is tried again.
ExchangeCodeRetrying(p) ==
    /\ pc[p] = "exchange"
    /\ UNCHANGED <<now, runs, args, registration, verifier, polls, authcode, interval>>
    /\ params' = [params EXCEPT ![p] = ExchangeParams(p)]
    /\ \E r \in ExchangeResponses, env \in SaveEnvs :
       \E httpError \in HttpErrors(r) :
         LET req == <<Http(registration[p]["token_endpoint"], ExchangeParams(p))>>
                        \o Reported(httpError)
         IN  /\ response' = [response EXCEPT ![p] = r]
             /\ IF Has(r, "error")
                THEN /\ Goto(p, "exchange", req)
                     /\ UNCHANGED <<token, file>>
                ELSE DoUpdateTokens(p, r, now, req, "refresh", env)

\* Lines 518-539 and 602: exchange the code, then update_tokens.
ExchangeCode(p) ==
    /\ pc[p] = "exchange"
    /\ UNCHANGED <<now, runs, args, registration, verifier, polls, authcode, interval>>
    /\ params' = [params EXCEPT ![p] = ExchangeParams(p)]
    /\ \E r \in ExchangeResponses, env \in SaveEnvs :
       \E httpError \in HttpErrors(r) :
         LET req == <<Http(registration[p]["token_endpoint"], ExchangeParams(p))>>
                        \o Reported(httpError)
         IN  /\ response' = [response EXCEPT ![p] = r]
             /\ IF Has(r, "error")
                THEN /\ Exit(p, 1, req \o <<Ev("die", r["error"])>>)
                     /\ UNCHANGED <<token, file>>
                ELSE DoUpdateTokens(p, r, now, req, "refresh", env)

\* Lines 564-567: the parameters of a poll.
PollParams(p, device_code) ==
    Update(Del(Put(BaseParams(p), "scope", registration[p]["scope"]), {"scope"}),
           [grant_type |-> "urn:ietf:params:oauth:grant-type:device_code",
            client_secret |-> token[p]["client_secret"],
            device_code |-> device_code])

\* Lines 396-397, 541-569, flow devicecode: request a device code.
DeviceCodeRequest(p) ==
    /\ pc[p] = "authorize"
    /\ AuthFlow(p) = "devicecode"
    /\ UNCHANGED <<now, runs, file, args, token, registration, verifier, polls, authcode>>
    /\ \E r \in DeviceResponses :
       \E httpError \in HttpErrors(r) :
         LET q == Put(BaseParams(p), "scope", registration[p]["scope"])
             req == <<Http(registration[p]["devicecode_endpoint"], q)>> \o Reported(httpError)
         IN  /\ response' = [response EXCEPT ![p] = r]
             /\ IF Has(r, "error")
                THEN /\ Exit(p, 1, req \o <<Ev("die", r["error"])>>)
                     /\ params' = [params EXCEPT ![p] = q]
                     /\ UNCHANGED interval
                ELSE /\ params' = [params EXCEPT ![p] = PollParams(p, r["device_code"])]
                     /\ interval' = [interval EXCEPT ![p] = r["interval"]]
                     /\ Goto(p, "poll", req \o <<Ev("clipboard", r["user_code"]),
                                                  Ev("browser", [url |-> r["verification_uri"],
                                                                 data |-> EmptyDict])>>)

\* Mutant of lines 570-596: expired_token is taken for authorization_pending.
DevicePollIgnoringExpiry(p) ==
    /\ pc[p] = "poll"
    /\ polls[p] < MaxPolls
    /\ UNCHANGED <<runs, args, registration, params, verifier, authcode, interval>>
    /\ now' = IF now + interval[p] > MaxTime THEN MaxTime ELSE now + interval[p]
    /\ polls' = [polls EXCEPT ![p] = @ + 1]
    /\ \E r \in PollResponses, env \in SaveEnvs :
         LET events == <<Ev("sleep", interval[p]),
                         Http(registration[p]["token_endpoint"], params[p])>>
         IN  /\ response' = [response EXCEPT ![p] = r]
             /\ IF ~Has(r, "error")
                THEN DoUpdateTokens(p, r, now', events, "refresh", env)
                ELSE /\ UNCHANGED <<token, file>>
                     /\ IF r["error"] = "authorization_declined"
                        THEN Exit(p, 1, events \o <<Ev("die", "user declined authorization.")>>)
                        ELSE IF r["error"] \notin {"authorization_pending", "expired_token"}
                        THEN Exit(p, 1, events \o <<Ev("die", r["error"])>>)
                        ELSE Goto(p, "poll", events)

\* Mutant of lines 570-596: the loop gives up at the second pending answer.
DevicePollGivingUp(p) ==
    /\ pc[p] = "poll"
    /\ polls[p] < MaxPolls
    /\ UNCHANGED <<runs, args, registration, params, verifier, authcode, interval>>
    /\ now' = IF now + interval[p] > MaxTime THEN MaxTime ELSE now + interval[p]
    /\ polls' = [polls EXCEPT ![p] = @ + 1]
    /\ \E r \in PollResponses, env \in SaveEnvs :
         LET events == <<Ev("sleep", interval[p]),
                         Http(registration[p]["token_endpoint"], params[p])>>
         IN  /\ response' = [response EXCEPT ![p] = r]
             /\ IF ~Has(r, "error")
                THEN DoUpdateTokens(p, r, now', events, "refresh", env)
                ELSE /\ UNCHANGED <<token, file>>
                     /\ IF r["error"] = "authorization_declined"
                        THEN Exit(p, 1, events \o <<Ev("die", "user declined authorization.")>>)
                        ELSE IF r["error"] = "expired_token" \/ polls[p] >= 1
                        THEN Exit(p, 1, events \o <<Ev("die", "too much time has elapsed.")>>)
                        ELSE IF r["error"] # "authorization_pending"
                        THEN Exit(p, 1, events \o <<Ev("die", r["error"])>>)
                        ELSE Goto(p, "poll", events)

\* Lines 570-596 and 602: one iteration of the poll loop.
DevicePoll(p) ==
    /\ pc[p] = "poll"
    /\ polls[p] < MaxPolls
    /\ UNCHANGED <<runs, args, registration, params, verifier, authcode, interval>>
    /\ now' = IF now + interval[p] > MaxTime THEN MaxTime ELSE now + interval[p]
    /\ polls' = [polls EXCEPT ![p] = @ + 1]
    /\ \E r \in PollResponses, env \in SaveEnvs :
         LET events == <<Ev("sleep", interval[p]),
                         Http(registration[p]["token_endpoint"], params[p])>>
         IN  /\ response' = [response EXCEPT ![p] = r]
             /\ IF ~Has(r, "error")
                THEN DoUpdateTokens(p, r, now', events, "refresh", env)
                ELSE /\ UNCHANGED <<token, file>>
                     /\ IF r["error"] = "authorization_declined"
                        THEN Exit(p, 1, events \o <<Ev("die", "user declined authorization.")>>)
                        ELSE IF r["error"] = "expired_token"
                        THEN Exit(p, 1, events \o <<Ev("die", "too much time has elapsed.")>>)
                        ELSE IF r["error"] # "authorization_pending"
                        THEN Exit(p, 1, events \o <<Ev("die", r["error"])>>)
                        ELSE Goto(p, "poll", events)

\* Lines 598-600: any other flow name.
UnknownFlow(p) ==
    /\ pc[p] = "authorize"
    /\ AuthFlow(p) \notin {"authcode", "localhostauthcode", "devicecode"}
    /\ Exit(p, 1, <<Ev("die", "ERROR: Unknown OAuth2 flow")>>)
    /\ UNCHANGED <<now, runs, file, args, token, registration, params, verifier, response,
                   polls, authcode, interval>>

\* Lines 611-615: the parameters of the refresh request.
RefreshParams(p) ==
    Update(BaseParams(p),
           [client_id |-> token[p]["client_id"],
            client_secret |-> token[p]["client_secret"],
            refresh_token |-> token[p]["refresh_token"],
            grant_type |-> "refresh_token"])

\* Mutant of lines 605-632: the refresh runs whatever access_token_valid() says.
RefreshAlways(p) ==
    /\ pc[p] = "refresh"
    /\ UNCHANGED <<now, runs, args, registration, verifier, polls, authcode, interval>>
    /\ IF token[p]["refresh_token"] = ""
       THEN /\ Exit(p, 1, <<Ev("die", "ERROR: No refresh token.")>>)
            /\ UNCHANGED <<token, file, params, response>>
       ELSE /\ params' = [params EXCEPT ![p] = RefreshParams(p)]
            /\ \E r \in ExchangeResponses, env \in SaveEnvs :
               \E httpError \in HttpErrors(r) :
                 LET req == <<Http(registration[p]["token_endpoint"], RefreshParams(p))>>
                                \o Reported(httpError)
                 IN  /\ response' = [response EXCEPT ![p] = r]
                     /\ IF Has(r, "error")
                        THEN /\ Exit(p, 1, req \o <<Ev("die", r["error"])>>)
                             /\ UNCHANGED <<token, file>>
                        ELSE DoUpdateTokens(p, r, now, req, "final", env)

\* Lines 605-632: refresh the access token when it is not valid.
Refresh(p) ==
    /\ pc[p] = "refresh"
    /\ UNCHANGED <<now, runs, args, registration, verifier, polls, authcode, interval>>
    /\ IF AccessTokenValid(token[p], now)
       THEN /\ Goto(p, "final", <<>>)
            /\ UNCHANGED <<token, file, params, response>>
       ELSE IF token[p]["refresh_token"] = ""
       THEN /\ Exit(p, 1, <<Ev("die", "ERROR: No refresh token.")>>)
            /\ UNCHANGED <<token, file, params, response>>
       ELSE /\ params' = [params EXCEPT ![p] = RefreshParams(p)]
            /\ \E r \in ExchangeResponses, env \in SaveEnvs :
               \E httpError \in HttpErrors(r) :
                 LET req == <<Http(registration[p]["token_endpoint"], RefreshParams(p))>>
                                \o Reported(httpError)
                 IN  /\ response' = [response EXCEPT ![p] = r]
                     /\ IF Has(r, "error")
                        THEN /\ Exit(p, 1, req \o <<Ev("die", r["error"])>>)
                             /\ UNCHANGED <<token, file>>
                        ELSE DoUpdateTokens(p, r, now, req, "final", env)

\* Mutant of lines 635-671: the final validity check is left out.
EmitUnchecked(p) ==
    /\ pc[p] = "final"
    /\ UNCHANGED <<now, runs, file, args, token, registration, params, verifier, response,
                   polls, authcode, interval>>
    /\ \E a \in OutputArgs :
         LET o == FormatOutput(token[p], registration[p], a.format, a.protocol, args[p].email)
         IN  Exit(p, 0, Label(a.format, a.verbose)
                            \o <<Ev("stdout", [format |-> a.format, line |-> o.line])>>)

\* Lines 635-671: the final validity check, then the output.
Emit(p) ==
    /\ pc[p] = "final"
    /\ UNCHANGED <<now, runs, file, args, token, registration, params, verifier, response,
                   polls, authcode, interval>>
    /\ IF ~AccessTokenValid(token[p], now)
       THEN Exit(p, 1, <<Ev("die", "ERROR: No valid access token.")>>)
       ELSE \E a \in OutputArgs :
            LET o == FormatOutput(token[p], registration[p], a.format, a.protocol, args[p].email)
            IN  IF o.ok
                THEN Exit(p, 0, Label(a.format, a.verbose)
                                \o <<Ev("stdout", [format |-> a.format, line |-> o.line])>>)
                ELSE Exit(p, 1, Label(a.format, a.verbose)
                                \o <<Ev("die", "Unknown protocol or SASL method")>>)

(***************************************************************************)
(* The environment.                                                        *)
(***************************************************************************)
\* The invocation has exited; what it left behind is in the file alone.
Reap(p) ==
    /\ pc[p] = "done"
    /\ pc' = [pc EXCEPT ![p] = "idle"]
    /\ args' = [args EXCEPT ![p] = NoArgs]
    /\ token' = [token EXCEPT ![p] = EmptyDict]
    /\ registration' = [registration EXCEPT ![p] = EmptyDict]
    /\ params' = [params EXCEPT ![p] = EmptyDict]
    /\ verifier' = [verifier EXCEPT ![p] = ""]
    /\ response' = [response EXCEPT ![p] = EmptyDict]
    /\ polls' = [polls EXCEPT ![p] = 0]
    /\ authcode' = [authcode EXCEPT ![p] = <<>>]
    /\ interval' = [interval EXCEPT ![p] = 0]
    /\ io' = [io EXCEPT ![p] = <<>>]
    /\ exitCode' = [exitCode EXCEPT ![p] = -1]
    /\ UNCHANGED <<now, runs, file>>

\* No exited invocation is waiting to be reaped.
Settled == \A p \in Procs : pc[p] # "done"

\* Time passes.
Tick ==
    /\ Settled
    /\ now < MaxTime
    /\ now' = now + 1
    /\ UNCHANGED <<runs, file, pc, args, token, registration, params, verifier, response,
                   polls, authcode, interval, io, exitCode>>

\* Somebody changes the mode of the token file between invocations.
Chmod ==
    /\ \A p \in Procs : pc[p] = "idle"
    /\ file.exists
    /\ \E m \in Modes : file' = [file EXCEPT !.mode = S_IFREG + m]
    /\ UNCHANGED <<now, runs, pc, args, token, registration, params, verifier, response,
                   polls, authcode, interval, io, exitCode>>

\* The operator deletes the token file to start over, between invocations.
Delete ==
    /\ file.exists
    /\ \A p \in Procs : pc[p] = "idle"
    /\ file' = NoFile
    /\ UNCHANGED <<now, runs, pc, args, token, registration, params, verifier, response,
                   polls, authcode, interval, io, exitCode>>

\* The steps of invocation p.
Run(p) ==
    \/ Start(p)
    \/ LoadTokenFile(p)
    \/ FirstRun(p)
    \/ ResolveRegistration(p)
    \/ AuthCodePrompt(p)
    \/ LocalhostCallback(p)
    \/ ExchangeCode(p)
    \/ DeviceCodeRequest(p)
    \/ DevicePoll(p)
    \/ UnknownFlow(p)
    \/ Refresh(p)
    \/ Emit(p)
    \/ Reap(p)

\* One invocation at a time.
Next == Run(1) \/ Tick \/ Chmod \/ Delete

Spec == Init /\ [][Next]_vars

(***************************************************************************)
(* build_sasl_string() on its own: the function applied to records,        *)
(* registrations, protocols and users drawn from small sets, among them a  *)
(* protocol and a SASL method the function does not know.                  *)
(***************************************************************************)
SaslRecords ==
    { [registration |-> "google", authflow |-> "authcode", email |-> e, access_token |-> t,
       access_token_expiration |-> IsoFormat(2), refresh_token |-> "", client_id |-> "cid",
       client_secret |-> "sec"] : e \in {"a@b.com", "e@f.com"}, t \in {"tok1", "tok2", "T"} }

SaslRegistrations ==
    { registrations["google"],
      registrations["microsoft"],
      [registrations["google"] EXCEPT !["sasl_method"] = "PLAIN"] }

SaslProtocols == {"imap", "pop", "smtp", "ftp"}

SaslInit ==
    /\ now = 0
    /\ runs = 1
    /\ file = NoFile
    /\ pc = [p \in Procs |-> IF p = 1 THEN "final" ELSE "idle"]
    /\ \E a \in {NoArgs, [NoArgs EXCEPT !.email = "c@d.com"]} :
            args = [p \in Procs |-> IF p = 1 THEN a ELSE NoArgs]
    /\ \E d \in SaslRecords : token = [p \in Procs |-> IF p = 1 THEN d ELSE EmptyDict]
    /\ \E reg \in SaslRegistrations :
            registration = [p \in Procs |-> IF p = 1 THEN reg ELSE EmptyDict]
    /\ params = [p \in Procs |-> EmptyDict]
    /\ verifier = [p \in Procs |-> ""]
    /\ response = [p \in Procs |-> EmptyDict]
    /\ polls = [p \in Procs |-> 0]
    /\ authcode = [p \in Procs |-> <<>>]
    /\ interval = [p \in Procs |-> 0]
    /\ io = [p \in Procs |-> <<>>]
    /\ exitCode = [p \in Procs |-> -1]

\* Lines 663/667: build_sasl_string(args.protocol, args.email) is called.
BuildSasl(p) ==
    /\ pc[p] = "final"
    /\ UNCHANGED <<now, runs, file, args, token, registration, params, verifier, response,
                   polls, authcode, interval>>
    /\ \E protocol \in SaslProtocols :
         LET r == BuildSaslString(token[p], registration[p], protocol, args[p].email)
         IN  IF r.ok
             THEN Exit(p, 0, <<Ev("sasl", [protocol |-> protocol, s |-> r.s])>>)
             ELSE Exit(p, 1, <<Ev("die", r.s)>>)

SaslNext == BuildSasl(1)

SaslSpec == SaslInit /\ [][SaslNext]_vars

(***************************************************************************)
(* The program run where an earlier version of the script has left a       *)
(* Microsoft record without the field tenant (the case of lines 310-312).  *)
(***************************************************************************)
LegacyRecord ==
    [registration |-> "microsoft", authflow |-> "devicecode", email |-> "a@b.com",
     access_token |-> "tok0", access_token_expiration |-> IsoFormat(1),
     refresh_token |-> "ref0", client_id |-> "cid", client_secret |-> "sec"]

LegacyInit ==
    /\ now = 0
    /\ runs = 0
    /\ file \in {NoFile, WriteTokenFile(NoFile, LegacyRecord, 18, TRUE).file}
    /\ pc = [p \in Procs |-> "idle"]
    /\ args = [p \in Procs |-> NoArgs]
    /\ token = [p \in Procs |-> EmptyDict]
    /\ registration = [p \in Procs |-> EmptyDict]
    /\ params = [p \in Procs |-> EmptyDict]
    /\ verifier = [p \in Procs |-> ""]
    /\ response = [p \in Procs |-> EmptyDict]
    /\ polls = [p \in Procs |-> 0]
    /\ authcode = [p \in Procs |-> <<>>]
    /\ interval = [p \in Procs |-> 0]
    /\ io = [p \in Procs |-> <<>>]
    /\ exitCode = [p \in Procs |-> -1]

LegacySpec == LegacyInit /\ [][Next]_vars

(***************************************************************************)
(* The poll loop on its own (lines 570-596): an invocation that has sent   *)
(* its device-code request polls the token endpoint.  time.sleep and       *)
(* urlopen return, so an iteration that can be made is made.               *)
(***************************************************************************)
PollInit ==
    /\ now \in 0..MaxTime
    /\ runs = 1
    /\ pc = [p \in Procs |-> IF p = 1 THEN "poll" ELSE "idle"]
    /\ \E a \in {c \in CommandLines : c.authorize /\ c.authflow \in {"", "devicecode"}} :
            args = [p \in Procs |-> IF p = 1 THEN a ELSE NoArgs]
    /\ \E ans \in {x \in FirstRunAnswers : x.provider = "microsoft" /\ x.flow = "devicecode"} :
            token = [p \in Procs |-> IF p = 1 THEN NewToken(NoArgs, ans) ELSE EmptyDict]
    /\ file = WriteTokenFile(NoFile, token[1], 18, TRUE).file
    /\ registration = [p \in Procs |-> IF p = 1 THEN Resolved(token[1]) ELSE EmptyDict]
    /\ response = [p \in Procs |->
                     IF p = 1
                     THEN CHOOSE r \in DeviceResponses : ~Has(r, "error")
                     ELSE EmptyDict]
    /\ params = [p \in Procs |->
                   IF p = 1 THEN PollParams(1, response[1]["device_code"]) ELSE EmptyDict]
    /\ verifier = [p \in Procs |-> ""]
    /\ polls = [p \in Procs |-> 0]
    /\ authcode = [p \in Procs |-> <<>>]
    /\ interval = [p \in Procs |-> IF p = 1 THEN response[1]["interval"] ELSE 0]
    /\ io = [p \in Procs |->
               IF p = 1
               THEN <<Http(registration[1]["devicecode_endpoint"],
                           Put(BaseParams(1), "scope", registration[1]["scope"])),
                      Ev("clipboard", response[1]["user_code"]),
                      Ev("browser", [url |-> response[1]["verification_uri"],
                                     data |-> EmptyDict])>>
               ELSE <<>>]
    /\ exitCode = [p \in Procs |-> -1]

PollNext == DevicePoll(1)

PollSpec == PollInit /\ [][PollNext]_vars /\ WF_vars(DevicePoll(1))

(***************************************************************************)
(* --test (lines 674-726): after the output, the access token is tried on  *)
(* the IMAP, POP and SMTP servers of the registration.                     *)
(***************************************************************************)
\* What a server does with one check: it accepts the login, it refuses it, or
\* the connection cannot be set up (the constructor or the handshake raises).
TestOutcomes == {"ok", "auth_failed", "unreachable"}

\* The state after line 671 of a run given --test, with or without --verbose.
TestInit ==
    /\ now = 0
    /\ runs = 1
    /\ file = NoFile
    /\ pc = [p \in Procs |-> IF p = 1 THEN "test_imap" ELSE "idle"]
    /\ \E v \in BOOLEAN, e \in {"", "c@d.com"} :
            args = [p \in Procs |-> IF p = 1
                                    THEN Put(Put([NoArgs EXCEPT !.email = e], "test", TRUE),
                                             "verbose", v)
                                    ELSE NoArgs]
    /\ \E d \in SaslRecords : token = [p \in Procs |-> IF p = 1 THEN d ELSE EmptyDict]
    /\ \E name \in DOMAIN registrations :
            registration = [p \in Procs |-> IF p = 1 THEN registrations[name] ELSE EmptyDict]
    /\ params = [p \in Procs |-> EmptyDict]
    /\ verifier = [p \in Procs |-> ""]
    /\ response = [p \in Procs |-> EmptyDict]
    /\ polls = [p \in Procs |-> 0]
    /\ authcode = [p \in Procs |-> <<>>]
    /\ interval = [p \in Procs |-> 0]
    /\ io = [p \in Procs |-> <<>>]
    /\ exitCode = [p \in Procs |-> -1]

\* The variable `errors`: set where a failure is printed (lines 690-691,
\* 706-707, 721-722), so it is read off the prints made so far.
Errors(log) ==
    \E i \in DOMAIN log : log[i].op = "print" /\ log[i].arg[2] = "authentication FAILED"

\* One check: connect, build the SASL string for the record's own email
\* (build_sasl_string(protocol), no user), authenticate, report.
Check(p, protocol, outcome) ==
    LET host == registration[p][CASE protocol = "imap" -> "imap_endpoint"
                                  [] protocol = "pop" -> "pop_endpoint"
                                  [] OTHER -> "smtp_endpoint"]
        sasl == BuildSaslString(token[p], registration[p], protocol, "")
        auth == Ev("authenticate", [protocol |-> protocol, host |-> host,
                                    method |-> registration[p]["sasl_method"],
                                    sasl |-> Base64(sasl.s), ok |-> outcome = "ok"])
    IN  IF outcome = "unreachable"
        THEN [go |-> FALSE, events |-> <<Ev("die", "OSError")>>]
        ELSE IF ~sasl.ok
        THEN [go |-> FALSE, events |-> <<Ev("connect", host), Ev("die", sasl.s)>>]
        ELSE IF outcome = "auth_failed"
        THEN [go |-> TRUE,
              events |-> <<Ev("connect", host), auth,
                           Ev("print", <<protocol, "authentication FAILED">>)>>]
        ELSE [go |-> TRUE,
              events |-> <<Ev("connect", host), auth>>
                         \o IF args[p].verbose
                            THEN <<Ev("print", <<protocol, "authentication succeeded">>)>>
                            ELSE <<>>]

\* Mutant of lines 675-691: a refused IMAP login ends the run.
TestImapAborting(p) ==
    /\ pc[p] = "test_imap"
    /\ UNCHANGED <<now, runs, file, args, token, registration, params, verifier, response,
                   polls, authcode, interval>>
    /\ \E outcome \in TestOutcomes :
         LET c == Check(p, "imap", outcome)
         IN  IF c.go /\ outcome = "ok" THEN Goto(p, "test_pop", c.events)
             ELSE Exit(p, 1, c.events)

\* Lines 675-691: the IMAP check.
TestImap(p) ==
    /\ pc[p] = "test_imap"
    /\ UNCHANGED <<now, runs, file, args, token, registration, params, verifier, response,
                   polls, authcode, interval>>
    /\ \E outcome \in TestOutcomes :
         LET c == Check(p, "imap", outcome)
         IN  IF c.go THEN Goto(p, "test_pop", c.events) ELSE Exit(p, 1, c.events)

\* Lines 693-707: the POP check.
TestPop(p) ==
    /\ pc[p] = "test_pop"
    /\ UNCHANGED <<now, runs, file, args, token, registration, params, verifier, response,
                   polls, authcode, interval>>
    /\ \E outcome \in TestOutcomes :
         LET c == Check(p, "pop", outcome)
         IN  IF c.go THEN Goto(p, "test_smtp", c.events) ELSE Exit(p, 1, c.events)

\* Lines 709-726: the SMTP check, then the exit status from `errors`.
TestSmtp(p) ==
    /\ pc[p] = "test_smtp"
    /\ UNCHANGED <<now, runs, file, args, token, registration, params, verifier, response,
                   polls, authcode, interval>>
    /\ \E outcome \in TestOutcomes :
         LET c == Check(p, "smtp", outcome)
         IN  IF ~c.go THEN Exit(p, 1, c.events)
             ELSE IF Errors(io[p] \o c.events) THEN Exit(p, 1, c.events)
             ELSE Exit(p, 0, c.events)

TestNext == TestImap(1) \/ TestPop(1) \/ TestSmtp(1)

TestSpec == TestInit /\ [][TestNext]_vars

(***************************************************************************)
(* Two invocations at once on the same token file.  Nothing in the script  *)
(* takes a lock, so the steps of the two interleave; path.write_bytes()    *)
(* (line 274) is open(path, 'wb'), which truncates the file, then one      *)
(* write at offset 0 of the writer's own file description, then close.     *)
(***************************************************************************)
\* The record both invocations find: its access token has expired.
SharedRecord ==
    [registration |-> "google", authflow |-> "authcode", email |-> "a@b.com",
     access_token |-> "tok0", access_token_expiration |-> IsoFormat(0),
     refresh_token |-> "ref0", client_id |-> "cid", client_secret |-> "sec"]

RacingInit ==
    /\ now \in 0..MaxTime
    /\ runs = 2
    /\ file = WriteTokenFile(NoFile, SharedRecord, 18, TRUE).file
    /\ pc = [p \in Procs |-> "load"]
    /\ args = [p \in Procs |-> NoArgs]
    /\ token = [p \in Procs |-> EmptyDict]
    /\ registration = [p \in Procs |-> EmptyDict]
    /\ params = [p \in Procs |-> EmptyDict]
    /\ verifier = [p \in Procs |-> ""]
    /\ response = [p \in Procs |-> EmptyDict]
    /\ polls = [p \in Procs |-> 0]
    /\ authcode = [p \in Procs |-> <<>>]
    /\ interval = [p \in Procs |-> 0]
    /\ io = [p \in Procs |-> <<>>]
    /\ exitCode = [p \in Procs |-> -1]

\* The length of the bytes of a file: that of the values of the text that was
\* encrypted (the pipe's output grows with its input).
RECURSIVE Size(_)
Size(bytes) ==
    IF bytes = <<>> THEN 0
    ELSE IF bytes[1] = "ciphertext"
    THEN IF bytes[2] = <<>> THEN 0
         ELSE Len(Head(bytes[2])[2]) + Size(<<"ciphertext", Tail(bytes[2])>>)
    ELSE Size(bytes[2])

\* write() at offset 0 of a file that holds `old`: what lies beyond the new
\* bytes stays.
Overlay(new, old) == IF Size(new) >= Size(old) THEN new ELSE <<"overlaid", new, old>>

\* Lines 605-632 and 338-349, 266-274 up to the open() of write_bytes: as
\* Refresh, but the save stops when the file has been opened, hence truncated.
RefreshOpen(p) ==
    /\ pc[p] = "refresh"
    /\ UNCHANGED <<now, runs, args, registration, verifier, polls, authcode, interval>>
    /\ IF AccessTokenValid(token[p], now)
       THEN /\ Goto(p, "final", <<>>)
            /\ UNCHANGED <<token, file, params, response>>
       ELSE IF token[p]["refresh_token"] = ""
       THEN /\ Exit(p, 1, <<Ev("die", "ERROR: No refresh token.")>>)
            /\ UNCHANGED <<token, file, params, response>>
       ELSE /\ params' = [params EXCEPT ![p] = RefreshParams(p)]
            /\ \E r \in ExchangeResponses, env \in SaveEnvs :
               \E httpError \in HttpErrors(r) :
                 LET req == <<Http(registration[p]["token_endpoint"], RefreshParams(p))>>
                                \o Reported(httpError)
                     u == UpdateTokens(token[p], Tampered(file, env.mode), r, now,
                                       env.umask, env.encOk)
                 IN  /\ response' = [response EXCEPT ![p] = r]
                     /\ IF Has(r, "error")
                        THEN /\ Exit(p, 1, req \o <<Ev("die", r["error"])>>)
                             /\ UNCHANGED <<token, file>>
                        ELSE /\ token' = [token EXCEPT ![p] = u.token]
                             /\ IF u.ok
                                THEN /\ file' = [u.file EXCEPT !.content = <<>>]
                                     /\ Goto(p, "write",
                                             req \o SubSeq(u.events, 1, Len(u.events) - 1))
                                ELSE /\ file' = u.file
                                     /\ Exit(p, 1, req \o u.events)

\* Line 274, the rest of write_bytes: the encrypted record is written at offset 0.
WriteBytes(p) ==
    /\ pc[p] = "write"
    /\ file' = [file EXCEPT !.content = Overlay(Encrypt(JsonDumps(token[p])), @)]
    /\ Goto(p, "final", <<Ev("write", Encrypt(JsonDumps(token[p])))>>)
    /\ UNCHANGED <<now, runs, args, token, registration, params, verifier, response,
                   polls, authcode, interval>>

Racing(p) ==
    \/ LoadTokenFile(p)
    \/ ResolveRegistration(p)
    \/ RefreshOpen(p)
    \/ WriteBytes(p)
    \/ Emit(p)

RacingNext == Racing(1) \/ Racing(2)

RacingSpec == RacingInit /\ [][RacingNext]_vars

(***************************************************************************)
(* Vocabulary of the properties.                                           *)
(***************************************************************************)
\* The effects invocation p has in the current step.
NewEvents(p) ==
    IF Len(io'[p]) > Len(io[p]) THEN SubSeq(io'[p], Len(io[p]) + 1, Len(io'[p])) ELSE <<>>

\* The positions of log `log` that hold an effect of kind op.
At(log, op) == {i \in DOMAIN log : log[i].op = op}

\* The requests of log `log` with the given grant type.
Grants(log, grant) ==
    {i \in At(log, "http") : Has(log[i].arg.data, "grant_type")
                              /\ log[i].arg.data["grant_type"] = grant}

\* The record the token file holds, when it holds one.
HoldsRecord(f) == f.exists /\ f.content # <<>>
Stored(f) == JsonLoads(Decrypt(f.content))

\* The validity of a record at time t, from the digits of its expiration.
StrictlyBefore(t, digits) == Len(digits) = 2 /\ t < 10 * digits[1] + digits[2]

(***************************************************************************)
(* C3.  access_token_valid is true exactly when the expiration is set and  *)
(* the current time is strictly before it: false when unset, in the past   *)
(* or equal to the current time, whatever the access token is.             *)
(***************************************************************************)
C3_ValidIffStrictlyBeforeExpiration ==
    \A p \in Procs :
        Has(token[p], "access_token_expiration") =>
            (AccessTokenValid(token[p], now)
                <=> StrictlyBefore(now, token[p]["access_token_expiration"]))

\* The final check finds the clock exactly at the expiration: not valid.
C3_Witness ==
    /\ pc[1] = "done"
    /\ exitCode[1] = 1
    /\ Has(token[1], "access_token_expiration")
    /\ token[1]["access_token_expiration"] = IsoFormat(now)
    /\ io[1][Len(io[1])].op = "die"
    /\ io[1][Len(io[1])].arg = "ERROR: No valid access token."

(***************************************************************************)
(* C1.  Every successful update of the token state is followed by a save   *)
(* of the record before the access token is written to output: an update   *)
(* is followed at once by writetokenfile(), a write lies between every     *)
(* update and a later output, and when a token is emitted the record the   *)
(* token file holds has the access token and the expiration of the record  *)
(* in memory.                                                              *)
(***************************************************************************)
C1_SaveFollowsUpdate ==
    \A p \in Procs :
        \A i \in At(io[p], "update") :
            /\ i < Len(io[p])
            /\ io[p][i + 1].op \in {"touch", "encrypt", "die"}
            /\ \A k \in At(io[p], "stdout") :
                   i < k => \E j \in At(io[p], "write") : i < j /\ j < k

C1_EmittedIsStored ==
    \A p \in Procs :
        At(NewEvents(p), "stdout") # {} =>
            /\ HoldsRecord(file')
            /\ Stored(file')["access_token"] = token'[p]["access_token"]
            /\ Stored(file')["access_token_expiration"] = token'[p]["access_token_expiration"]

C1_SavedBeforeOutput == [] C1_SaveFollowsUpdate /\ [][C1_EmittedIsStored]_vars

\* A run refreshed the token, saved it and emitted it.
C1_Witness ==
    /\ pc[1] = "done"
    /\ exitCode[1] = 0
    /\ \E i \in At(io[1], "update") : \E j \in At(io[1], "write") : \E k \in At(io[1], "stdout") :
          i < j /\ j < k

(***************************************************************************)
(* C2.  A run emits a token only from the final check, and only if there   *)
(* the record has an expiration and the clock is strictly before it; when  *)
(* the final check finds the token invalid, also after a refresh that      *)
(* succeeded, the run ends with a non-zero status and has emitted nothing. *)
(***************************************************************************)
C2_Step ==
    \A p \in Procs :
        /\ At(NewEvents(p), "stdout") # {} =>
               /\ pc[p] = "final"
               /\ Has(token[p], "access_token_expiration")
               /\ StrictlyBefore(now, token[p]["access_token_expiration"])
               /\ exitCode'[p] = 0
        /\ (/\ pc[p] = "final"
            /\ pc'[p] # "final"
            /\ ~StrictlyBefore(now, token[p]["access_token_expiration"])) =>
               /\ exitCode'[p] = 1
               /\ At(io'[p], "stdout") = {}

C2_EmitsOnlyValid == [][C2_Step]_vars

\* A refresh succeeded and was saved, yet the final check found the token invalid.
C2_Witness ==
    /\ pc[1] = "done"
    /\ exitCode[1] = 1
    /\ At(io[1], "stdout") = {}
    /\ io[1] # <<>>
    /\ io[1][Len(io[1])].op = "die"
    /\ io[1][Len(io[1])].arg = "ERROR: No valid access token."
    /\ \E i \in Grants(io[1], "refresh_token") : \E j \in At(io[1], "write") : i < j

(***************************************************************************)
(* C4.  A run without --authorize whose cached access token is valid makes *)
(* no request, does not write the token file, leaves the record unchanged  *)
(* and emits the cached access token.  The refresh exchange is attempted   *)
(* exactly when, after the optional authorization, the token is not valid  *)
(* and the record has a non-empty refresh token; a token that is not valid *)
(* with an empty refresh token ends the run with a non-zero status and     *)
(* without any request.                                                    *)
(***************************************************************************)
\* The step of invocation p that decides on the refresh.
RefreshStep(p) == pc[p] = "refresh" /\ pc'[p] # "refresh"

\* Original statement: the exchange is attempted exactly when the token is not valid.
C4_RefreshExactlyWhenInvalid ==
    [][\A p \in Procs :
          RefreshStep(p) =>
              (Grants(NewEvents(p), "refresh_token") # {} <=> ~AccessTokenValid(token[p], now))]_vars

\* A run without --authorize works on the stored record and has had no effect so far.
C4_Cached ==
    \A p \in Procs :
        (~args[p].authorize /\ pc[p] = "refresh") =>
            /\ HoldsRecord(file)
            /\ token[p] = Stored(file)
            /\ At(io[p], "http") = {}
            /\ At(io[p], "write") = {}

C4_Step ==
    \A p \in Procs :
        /\ RefreshStep(p) =>
               /\ AccessTokenValid(token[p], now) =>
                      /\ NewEvents(p) = <<>>
                      /\ file' = file
                      /\ token'[p] = token[p]
                      /\ pc'[p] = "final"
               /\ Grants(NewEvents(p), "refresh_token") # {}
                      <=> (~AccessTokenValid(token[p], now) /\ token[p]["refresh_token"] # "")
               /\ (~AccessTokenValid(token[p], now) /\ token[p]["refresh_token"] = "") =>
                      /\ At(NewEvents(p), "http") = {}
                      /\ file' = file
                      /\ exitCode'[p] = 1
        /\ (/\ pc[p] = "final"
            /\ ~args[p].authorize
            /\ At(io[p], "http") = {}
            /\ At(NewEvents(p), "stdout") # {}) =>
               /\ file' = file
               /\ token'[p] = Stored(file)
               /\ At(io'[p], "write") = {}
               /\ \A k \in At(NewEvents(p), "stdout") :
                      NewEvents(p)[k].arg.format = "token" =>
                          NewEvents(p)[k].arg.line = <<Stored(file)["access_token"]>>

C4_RefreshWhenInvalidAndRefreshable == [] C4_Cached /\ [][C4_Step]_vars

\* A run found its access token expired and its refresh token empty.
C4_Witness ==
    /\ pc[1] = "done"
    /\ exitCode[1] = 1
    /\ Has(token[1], "refresh_token")
    /\ token[1]["refresh_token"] = ""
    /\ ~AccessTokenValid(token[1], now)
    /\ At(io[1], "http") = {}
    /\ io[1] # <<>>
    /\ io[1][Len(io[1])].op = "die"
    /\ io[1][Len(io[1])].arg = "ERROR: No refresh token."

\* A run without --authorize emitted the cached access token without any request.
C4_CachedWitness ==
    /\ pc[1] = "done"
    /\ exitCode[1] = 0
    /\ ~args[1].authorize
    /\ At(io[1], "http") = {}
    /\ At(io[1], "write") = {}
    /\ At(io[1], "stdout") # {}

(***************************************************************************)
(* C5.  A token file whose permission bits are not exactly 0600 makes the  *)
(* load end the run with a non-zero status before the content is read or   *)
(* decrypted, and makes the save end the run with a non-zero status before *)
(* anything is encrypted or written; with mode 0600 neither rejects.       *)
(***************************************************************************)
\* The permission bits of a file, and the rejection of lines 255 and 271.
ModeBits(f) == f.mode % 512
Rejections(log) == {i \in At(log, "die") : log[i].arg = "Token file has unsafe mode"}

\* The step of invocation p calls writetokenfile().
SaveStep(p) ==
    \/ pc[p] = "firstrun" /\ token'[p] # token[p]
    \/ At(NewEvents(p), "update") # {}

C5_Step ==
    \A p \in Procs :
        /\ (pc[p] = "load" /\ pc'[p] # "load" /\ file.exists) =>
               IF ModeBits(file) # 384
               THEN /\ exitCode'[p] = 1
                    /\ Rejections(NewEvents(p)) # {}
                    /\ At(NewEvents(p), "read") = {}
                    /\ At(NewEvents(p), "decrypt") = {}
                    /\ token'[p] = token[p]
               ELSE Rejections(NewEvents(p)) = {}
        /\ SaveStep(p) =>
               IF ModeBits(file') # 384
               THEN /\ exitCode'[p] = 1
                    /\ Rejections(NewEvents(p)) # {}
                    /\ At(NewEvents(p), "encrypt") = {}
                    /\ At(NewEvents(p), "write") = {}
                    /\ file'.content = file.content
               ELSE Rejections(NewEvents(p)) = {}

C5_UnsafeModeRejected == [][C5_Step]_vars

\* A save found the file owner-rwx and ended the run.
C5_Witness ==
    /\ pc[1] = "done"
    /\ exitCode[1] = 1
    /\ file.exists
    /\ ModeBits(file) = 448
    /\ At(io[1], "update") # {}
    /\ Rejections(io[1]) = {Len(io[1])}

\* A load found the file group- and world-readable and ended the run.
C5_LoadWitness ==
    /\ pc[1] = "done"
    /\ exitCode[1] = 1
    /\ file.exists
    /\ ModeBits(file) = 420
    /\ Len(io[1]) = 1
    /\ Rejections(io[1]) = {1}

(***************************************************************************)
(* C6.  With the token file absent the load yields the empty record and    *)
(* no error; a run started without --authorize then ends with a non-zero   *)
(* status, without creating the token file, without any request and        *)
(* without emitting a token.                                               *)
(***************************************************************************)
C6_Step ==
    \A p \in Procs :
        /\ (pc[p] = "load" /\ pc'[p] # "load" /\ ~file.exists) =>
               /\ token'[p] = EmptyDict
               /\ pc'[p] = "firstrun"
               /\ exitCode'[p] = -1
               /\ NewEvents(p) = <<>>
               /\ file' = file
        /\ (pc[p] = "firstrun" /\ pc'[p] # "firstrun" /\ ~args[p].authorize) =>
               /\ pc'[p] = "done"
               /\ exitCode'[p] = 1
               /\ file' = file
               /\ token'[p] = EmptyDict
               /\ At(io'[p], "touch") = {}
               /\ At(io'[p], "write") = {}
               /\ At(io'[p], "http") = {}
               /\ At(io'[p], "stdout") = {}

C6_AbsentFileNeedsAuthorize == [][C6_Step]_vars

\* A run without --authorize found no token file and ended, leaving none.
C6_Witness ==
    /\ pc[1] = "done"
    /\ exitCode[1] = 1
    /\ ~args[1].authorize
    /\ ~file.exists
    /\ token[1] = EmptyDict
    /\ Len(io[1]) = 1
    /\ io[1][1].op = "die"
    /\ io[1][1].arg = "You must run script with --authorize"

(***************************************************************************)
(* C7.  Original statement: once an authorization has been accepted by     *)
(* update_tokens and saved, the refresh token of the record is non-empty.  *)
(***************************************************************************)
C7_NonEmptyOnceAuthorized ==
    \A p \in Procs :
        (/\ args[p].authorize
         /\ \E i \in At(io[p], "update") : \E j \in At(io[p], "write") : i < j) =>
            /\ token[p]["refresh_token"] # ""
            /\ HoldsRecord(file) => Stored(file)["refresh_token"] # ""

(***************************************************************************)
(* C7.  As the code has it: an update whose response carries a non-empty   *)
(* refresh_token leaves the refresh token non-empty, in memory and in the  *)
(* saved record; a non-empty refresh token stays non-empty through every   *)
(* later authorization or refresh whose response omits refresh_token or    *)
(* carries a non-empty one; an authorization whose response omits it, or   *)
(* carries an empty one, is accepted and leaves the refresh token empty.   *)
(* A refresh token turns from non-empty to empty only by a response that   *)
(* carries an empty refresh_token.                                         *)
(***************************************************************************)
\* The step of invocation p accepts a response carrying an empty refresh_token.
EmptyRefreshAccepted(p) ==
    \E k \in At(NewEvents(p), "update") :
        /\ Has(NewEvents(p)[k].arg, "refresh_token")
        /\ NewEvents(p)[k].arg["refresh_token"] = ""

C7_Step ==
    /\ \A p \in Procs : \A k \in At(NewEvents(p), "update") :
           LET r == NewEvents(p)[k].arg
               kept == IF Has(r, "refresh_token") THEN r["refresh_token"] # ""
                       ELSE token[p]["refresh_token"] # ""
           IN  /\ token'[p]["refresh_token"] # "" <=> kept
               /\ At(NewEvents(p), "write") # {} =>
                      (Stored(file')["refresh_token"] # "" <=> kept)
    /\ \A p \in Procs :
           (/\ Has(token[p], "refresh_token")
            /\ token[p]["refresh_token"] # ""
            /\ Has(token'[p], "refresh_token")
            /\ token'[p]["refresh_token"] = "") => EmptyRefreshAccepted(p)
    /\ (/\ HoldsRecord(file)
        /\ Stored(file)["refresh_token"] # ""
        /\ HoldsRecord(file')
        /\ Stored(file')["refresh_token"] = "") => \E p \in Procs : EmptyRefreshAccepted(p)

C7_RefreshTokenKeptNonEmpty == [][C7_Step]_vars

\* An authorization whose response omitted refresh_token was accepted and saved.
C7_Witness ==
    /\ args[1].authorize
    /\ pc[1] = "final"
    /\ token[1]["refresh_token"] = ""
    /\ HoldsRecord(file)
    /\ Stored(file)["refresh_token"] = ""
    /\ \E i \in At(io[1], "update") : \E j \in At(io[1], "write") :
          i < j /\ ~Has(io[1][i].arg, "refresh_token")

\* A non-empty refresh token survived a refresh whose response omitted refresh_token.
C7_KeptWitness ==
    /\ ~args[1].authorize
    /\ pc[1] = "final"
    /\ token[1]["refresh_token"] # ""
    /\ \E i \in At(io[1], "update") : \E j \in At(io[1], "write") :
          i < j /\ ~Has(io[1][i].arg, "refresh_token")

(***************************************************************************)
(* C8.  The access token and its expiration are updated together: when     *)
(* the pair of the saved record changes, and when the pair of the record   *)
(* of a running invocation changes, both come from one token response, the *)
(* access token it carries and the time of the update plus its expires_in  *)
(* (or both are the empty values of a new record, or both are the pair     *)
(* just loaded); in a saved record they are both empty or both set.        *)
(***************************************************************************)
Pair(d) == <<d["access_token"], d["access_token_expiration"]>>
HasPair(d) == Has(d, "access_token") /\ Has(d, "access_token_expiration")
EmptyPair == <<"", <<>>>>

\* Some invocation accepts, in this step, a response that yields the pair pr.
FromOneResponse(pr) ==
    \E p \in Procs : \E k \in At(NewEvents(p), "update") :
        LET r == NewEvents(p)[k].arg
        IN  pr = <<r["access_token"], IsoFormat(now' + r["expires_in"])>>

C8_BothOrNeither ==
    HoldsRecord(file) =>
        (Stored(file)["access_token"] = "" <=> Stored(file)["access_token_expiration"] = <<>>)

C8_Step ==
    /\ (HoldsRecord(file') /\ ~HoldsRecord(file)) =>
           (Pair(Stored(file')) = EmptyPair \/ FromOneResponse(Pair(Stored(file'))))
    /\ (HoldsRecord(file') /\ HoldsRecord(file) /\ Pair(Stored(file')) # Pair(Stored(file))) =>
           FromOneResponse(Pair(Stored(file')))
    /\ \A p \in Procs :
           (/\ pc'[p] # "done"
            /\ HasPair(token'[p])
            /\ ~HasPair(token[p]) \/ Pair(token'[p]) # Pair(token[p])) =>
               \/ pc[p] = "load" /\ Pair(token'[p]) = Pair(Stored(file))
               \/ pc[p] = "firstrun" /\ Pair(token'[p]) = EmptyPair
               \/ FromOneResponse(Pair(token'[p]))

C8_UpdatedTogether == [] C8_BothOrNeither /\ [][C8_Step]_vars

\* A refresh replaced the pair of a saved record that held another pair.
C8_Witness ==
    /\ ~args[1].authorize
    /\ pc[1] = "final"
    /\ HoldsRecord(file)
    /\ Pair(Stored(file)) = Pair(token[1])
    /\ Pair(token[1]) # EmptyPair
    /\ \E i \in Grants(io[1], "refresh_token") : \E j \in At(io[1], "write") : i < j

(***************************************************************************)
(* C9.  update_tokens replaces the refresh token of the record exactly     *)
(* when the response has a refresh_token field, by the value of the field; *)
(* when the response omits it, the refresh token is the previous one, in   *)
(* memory and in the saved record.                                         *)
(***************************************************************************)
C9_Step ==
    /\ \A p \in Procs : \A k \in At(NewEvents(p), "update") :
           LET r == NewEvents(p)[k].arg
               expected == IF Has(r, "refresh_token") THEN r["refresh_token"]
                           ELSE token[p]["refresh_token"]
           IN  /\ token'[p]["refresh_token"] = expected
               /\ At(NewEvents(p), "write") # {} => Stored(file')["refresh_token"] = expected
    /\ \A p \in Procs :
           (/\ Has(token[p], "refresh_token")
            /\ Has(token'[p], "refresh_token")
            /\ token'[p]["refresh_token"] # token[p]["refresh_token"]) =>
               \E k \in At(NewEvents(p), "update") : Has(NewEvents(p)[k].arg, "refresh_token")

C9_RefreshTokenReplacedOnlyIfReturned == [][C9_Step]_vars

\* A refresh whose response omitted refresh_token was saved with the previous one.
C9_Witness ==
    /\ pc[1] = "final"
    /\ token[1]["refresh_token"] = "ref1"
    /\ HoldsRecord(file)
    /\ Stored(file)["refresh_token"] = "ref1"
    /\ io[1] # <<>>
    /\ io[1][Len(io[1])].op = "write"
    /\ \E i \in Grants(io[1], "refresh_token") : \E k \in At(io[1], "update") :
          i < k /\ ~Has(io[1][k].arg, "refresh_token")

(***************************************************************************)
(* C10.  After an authorization of any of the three flows is answered by   *)
(* a token response with access_token t and expires_in n, the access token *)
(* of the record is t and its expiration the time of the update plus n,    *)
(* the record with these values is saved unless the save ends the run, and *)
(* a run that goes on to the output without a refresh prints exactly t in  *)
(* the plain format; with a pasted redirect URL whose query has code=C the *)
(* code sent in the exchange is C.                                         *)
(***************************************************************************)
\* The value of the code parameter of a URL: its query, decoded once.
CodeParameter(u) == QsValues(UrlQuery(u), <<"code">>)

\* The response the authorization of invocation p was answered by.
AuthResponse(p) ==
    io[p][CHOOSE i \in At(io[p], "update") : \A j \in At(io[p], "update") : i <= j].arg

C10_UpdateStep ==
    \A p \in Procs :
        (args[p].authorize /\ pc[p] \in {"exchange", "poll"}) =>
            \A k \in At(NewEvents(p), "update") :
                LET r == NewEvents(p)[k].arg
                IN  /\ Pair(token'[p]) = <<r["access_token"], IsoFormat(now' + r["expires_in"])>>
                    /\ pc'[p] # "done" =>
                           /\ pc'[p] = "refresh"
                           /\ HoldsRecord(file')
                           /\ Pair(Stored(file')) = Pair(token'[p])

C10_Printed ==
    \A p \in Procs :
        (/\ args[p].authorize
         /\ pc[p] = "final"
         /\ Grants(io[p], "refresh_token") = {}) =>
            \A k \in At(NewEvents(p), "stdout") :
                NewEvents(p)[k].arg.format = "token" =>
                    NewEvents(p)[k].arg.line = <<AuthResponse(p)["access_token"]>>

C10_RecordSavedAndPrinted == [][C10_UpdateStep /\ C10_Printed]_vars

C10_PastedCodeIsSent ==
    \A p \in Procs :
        \A h \in Grants(io[p], "authorization_code") :
            \A i \in At(io[p], "input") :
                LET u == io[p][i].arg
                IN  (/\ u # <<>>
                     /\ u[1] = UrlPrefix
                     /\ CodeParameter(u) # <<>>
                     /\ \E k \in At(io[p], "update") : h < k) =>
                        io[p][h].arg.data["code"] = CodeParameter(u)[1]

C10_AuthorizationEndToEnd == [] C10_PastedCodeIsSent /\ C10_RecordSavedAndPrinted

\* An authorization by pasted URL was saved and its access token printed.
C10_Reached ==
    /\ pc[1] = "done"
    /\ exitCode[1] = 0
    /\ args[1].authorize
    /\ At(io[1], "input") # {}
    /\ Grants(io[1], "refresh_token") = {}
    /\ \E i \in At(io[1], "update") : \E j \in At(io[1], "write") : \E k \in At(io[1], "stdout") :
          i < j /\ j < k /\ io[1][k].arg.format = "token"

(***************************************************************************)
(* C11.  In the device-code flow every poll is preceded by a wait of the   *)
(* declared interval and sends the same parameters.  A response with the   *)
(* token fields and no error ends the polling and updates the record with  *)
(* its token; authorization_pending leaves record and file alone and leads *)
(* to another poll; authorization_declined, expired_token and any other    *)
(* error end the run with a non-zero status, the record not updated and no *)
(* further poll made.  So n responses are answered by exactly n polls.     *)
(***************************************************************************)
DeviceGrant == "urn:ietf:params:oauth:grant-type:device_code"

\* The step of invocation p is one iteration of the poll loop.
PollStep(p) == pc[p] = "poll" /\ polls'[p] = polls[p] + 1

C11_Log ==
    \A p \in Procs :
        /\ Cardinality(Grants(io[p], DeviceGrant)) = polls[p]
        /\ \A h \in Grants(io[p], DeviceGrant) :
               /\ h > 1
               /\ io[p][h - 1].op = "sleep"
               /\ io[p][h - 1].arg = interval[p]
               /\ \A g \in Grants(io[p], DeviceGrant) : io[p][g].arg = io[p][h].arg
               /\ h < Len(io[p]) => io[p][h + 1].op \in {"sleep", "update", "die"}
        /\ \A e \in At(io[p], "update") \cup At(io[p], "die") :
               \A h \in Grants(io[p], DeviceGrant) : h < e

C11_Step ==
    \A p \in Procs :
        PollStep(p) =>
            LET r == response'[p]
                new == NewEvents(p)
            IN  /\ Len(new) >= 2
                /\ new[1] = Ev("sleep", interval[p])
                /\ new[2] = Http(registration[p]["token_endpoint"], params[p])
                /\ Cardinality(At(new, "http")) = 1
                /\ params'[p] = params[p]
                /\ interval'[p] = interval[p]
                /\ IF Has(r, "error")
                   THEN /\ token'[p] = token[p]
                        /\ file' = file
                        /\ At(new, "update") = {}
                        /\ IF r["error"] = "authorization_pending"
                           THEN pc'[p] = "poll" /\ Len(new) = 2 /\ exitCode'[p] = -1
                           ELSE pc'[p] = "done" /\ exitCode'[p] = 1
                                /\ new[Len(new)].op = "die"
                   ELSE /\ pc'[p] # "poll"
                        /\ (Has(r, "access_token") /\ Has(r, "expires_in")) =>
                               /\ new[3] = Ev("update", r)
                               /\ token'[p]["access_token"] = r["access_token"]

C11_PollResponsesClassified == [] C11_Log /\ [][C11_Step]_vars

\* Pending, pending, success: three polls, each after a wait, the record updated.
C11_Witness ==
    /\ pc[1] = "refresh"
    /\ polls[1] = 3
    /\ Cardinality(Grants(io[1], DeviceGrant)) = 3
    /\ Cardinality(At(io[1], "sleep")) = 3
    /\ Cardinality(At(io[1], "update")) = 1
    /\ token[1]["access_token"] = "tok2"
    /\ response[1] = [access_token |-> "tok2", expires_in |-> 2]

\* Declined: one poll, the record not updated.
C11_DeclinedWitness ==
    /\ pc[1] = "done"
    /\ exitCode[1] = 1
    /\ polls[1] = 1
    /\ Cardinality(Grants(io[1], DeviceGrant)) = 1
    /\ At(io[1], "update") = {}
    /\ token[1]["access_token"] = ""
    /\ response[1] = [error |-> "authorization_declined"]

(***************************************************************************)
(* C12.  When the refresh is entered with an empty refresh token the run   *)
(* ends with a non-zero status and no request; when the refresh request is *)
(* answered by an HTTP error status or by a body with an error field, the  *)
(* run ends with a non-zero status, record and token file unchanged and no *)
(* token emitted.                                                          *)
(***************************************************************************)
\* The run of invocation p ends in this step, failed, nothing changed or emitted.
FailsUnchanged(p) ==
    /\ pc'[p] = "done"
    /\ exitCode'[p] = 1
    /\ token'[p] = token[p]
    /\ file' = file
    /\ At(io'[p], "stdout") = {}
    /\ At(NewEvents(p), "update") = {}

\* The refresh request of this step was answered by an HTTP error status.
RefreshHttpError(p) ==
    /\ Grants(NewEvents(p), "refresh_token") # {}
    /\ At(NewEvents(p), "print") # {}

\* The refresh request of this step was answered by a body with an error field.
RefreshErrorBody(p) ==
    /\ Grants(NewEvents(p), "refresh_token") # {}
    /\ Has(response'[p], "error")

C12_NoRefreshToken ==
    \A p \in Procs :
        (/\ RefreshStep(p)
         /\ ~AccessTokenValid(token[p], now)
         /\ token[p]["refresh_token"] = "") =>
            /\ FailsUnchanged(p)
            /\ At(NewEvents(p), "http") = {}

\* The part of the statement the code satisfies: the body decides.
C12_ErrorBodyFails ==
    [][C12_NoRefreshToken
       /\ \A p \in Procs : (RefreshStep(p) /\ RefreshErrorBody(p)) => FailsUnchanged(p)]_vars

C12_RefreshFailureIsFatal ==
    [][C12_NoRefreshToken
       /\ \A p \in Procs :
              (RefreshStep(p) /\ (RefreshHttpError(p) \/ RefreshErrorBody(p))) =>
                  FailsUnchanged(p)]_vars

(***************************************************************************)
(* C13.  A failed exchange is not retried: when the code exchange, the     *)
(* device-code request or the refresh request is answered by a body with   *)
(* an error field, with or without an HTTP error status, the run ends with *)
(* a non-zero status, with no further request, no update_tokens, no save   *)
(* and no token emitted.  An invocation sends at most one code exchange,   *)
(* one device-code request and one refresh request; nothing follows the    *)
(* message a run ends with.                                                *)
(***************************************************************************)
\* The device-code requests of a log: the requests that carry no grant type.
DeviceCodeRequests(log) == {i \in At(log, "http") : ~Has(log[i].arg.data, "grant_type")}

C13_AtMostOnce ==
    \A p \in Procs :
        /\ Cardinality(Grants(io[p], "authorization_code")) <= 1
        /\ Cardinality(Grants(io[p], "refresh_token")) <= 1
        /\ Cardinality(DeviceCodeRequests(io[p])) <= 1
        /\ \A d \in At(io[p], "die") : d = Len(io[p]) /\ pc[p] = "done"

C13_Step ==
    \A p \in Procs :
        (/\ pc[p] \in {"exchange", "authorize", "refresh"}
         /\ At(NewEvents(p), "http") # {}
         /\ Has(response'[p], "error")) =>
            /\ FailsUnchanged(p)
            /\ Cardinality(At(NewEvents(p), "http")) = 1
            /\ At(NewEvents(p), "encrypt") = {}
            /\ At(NewEvents(p), "write") = {}
            /\ NewEvents(p)[Len(NewEvents(p))] = Ev("die", response'[p]["error"])

C13_FailedExchangeNotRetried == [] C13_AtMostOnce /\ [][C13_Step]_vars

\* A code exchange was answered by an error under an HTTP error status: the run ended.
C13_Witness ==
    /\ pc[1] = "done"
    /\ exitCode[1] = 1
    /\ response[1] = [error |-> "invalid_grant"]
    /\ Len(io[1]) >= 3
    /\ Grants(io[1], "authorization_code") = {Len(io[1]) - 2}
    /\ io[1][Len(io[1]) - 1].op = "print"
    /\ io[1][Len(io[1])].op = "die"
    /\ At(io[1], "update") = {}

(***************************************************************************)
(* C14.  Original statement: in a run on an existing token file the flow   *)
(* run by an authorization is the flow of the stored record, and the user  *)
(* of the emitted SASL string is the e-mail of the stored record, whatever *)
(* the command line says.                                                  *)
(***************************************************************************)
\* Invocation p has loaded a record from the token file.
Loaded(p) == At(io[p], "read") # {} /\ token[p] # EmptyDict

\* The flow an authorization step has run, from its effects.
FlowRun(new) ==
    IF At(new, "input") # {} THEN "authcode"
    ELSE IF At(new, "bind") # {} THEN "localhostauthcode"
    ELSE IF DeviceCodeRequests(new) # {} THEN "devicecode"
    ELSE "none"

\* The step of invocation p prints, in some format, the line made for user u.
PrintsFor(p, u) ==
    \A k \in At(NewEvents(p), "stdout") :
        \E a \in OutputArgs :
            /\ a.format = NewEvents(p)[k].arg.format
            /\ NewEvents(p)[k].arg.line
                  = FormatOutput(token[p], registration[p], a.format, a.protocol, u).line

IdentityKeys == {"registration", "email", "client_id", "client_secret", "tenant", "redirect_uri"}

\* The endpoints of the record's provider, with the record's tenant.
Endpoints(d) ==
    {Resolved(d)[k] : k \in {"authorize_endpoint", "devicecode_endpoint", "token_endpoint"}}

C14_Requests ==
    \A p \in Procs :
        Loaded(p) =>
            /\ HoldsRecord(file) =>
                   /\ DOMAIN token[p] \cap IdentityKeys = DOMAIN Stored(file) \cap IdentityKeys
                   /\ \A k \in DOMAIN token[p] \cap IdentityKeys : token[p][k] = Stored(file)[k]
            /\ \A i \in At(io[p], "http") \cup At(io[p], "browser") :
                   LET d == io[p][i].arg.data
                   IN  /\ d # EmptyDict => io[p][i].arg.url \in Endpoints(token[p])
                       /\ Has(d, "client_id") => d["client_id"] = token[p]["client_id"]
                       /\ Has(d, "client_secret") => d["client_secret"] = token[p]["client_secret"]
                       /\ Has(d, "login_hint") => d["login_hint"] = token[p]["email"]
                       /\ Has(d, "tenant") =>
                              /\ token[p]["registration"] = "microsoft"
                              /\ d["tenant"] = token[p]["tenant"]
                       /\ (Has(d, "redirect_uri") /\ At(io[p], "bind") = {}) =>
                              d["redirect_uri"]
                                = IF Has(token[p], "redirect_uri") THEN token[p]["redirect_uri"]
                                  ELSE Resolved(token[p])["redirect_uri"]

C14_Created ==
    \A p \in Procs :
        (pc[p] = "firstrun" /\ pc'[p] # "firstrun" /\ token'[p] # EmptyDict) =>
            /\ args[p].provider # "" => token'[p]["registration"] = args[p].provider
            /\ args[p].authflow # "" => token'[p]["authflow"] = args[p].authflow
            /\ args[p].email # "" => token'[p]["email"] = args[p].email
            /\ args[p].client_id # "" => token'[p]["client_id"] = args[p].client_id
            /\ args[p].client_secret # "" => token'[p]["client_secret"] = args[p].client_secret
            /\ Has(token'[p], "tenant") => token'[p]["tenant"] = args[p].tenant
            /\ Has(token'[p], "redirect_uri") <=> args[p].redirect_uri # <<>>
            /\ Has(token'[p], "redirect_uri") => token'[p]["redirect_uri"] = args[p].redirect_uri

C14_FlowAndUser ==
    \A p \in Procs :
        Loaded(p) =>
            /\ (pc[p] = "authorize" /\ pc'[p] # "authorize") =>
                   FlowRun(NewEvents(p))
                     \in {IF args[p].authflow # "" THEN args[p].authflow ELSE token[p]["authflow"],
                          "none"}
            /\ PrintsFor(p, IF args[p].email # "" THEN args[p].email ELSE token[p]["email"])

C14_EmailWitness ==
    /\ Loaded(1)
    /\ pc[1] = "done"
    /\ exitCode[1] = 0
    /\ args[1].email = "c@d.com"
    /\ token[1]["email"] = "a@b.com"
    /\ \E k \in At(io[1], "stdout") : io[1][k].arg.format = "sasl"

(***************************************************************************)
(* C15.  A run whose record names a provider that is not in the registry   *)
(* ends with a non-zero status at the lookup: before any authorization,    *)
(* refresh or other request, and without emitting a token.                 *)
(***************************************************************************)
UnknownProvider(d) == Has(d, "registration") /\ d["registration"] \notin DOMAIN registrations

C15_NothingSent ==
    \A p \in Procs :
        UnknownProvider(token[p]) =>
            /\ pc[p] \in {"resolve", "done"}
            /\ At(io[p], "http") = {}
            /\ At(io[p], "browser") = {}
            /\ At(io[p], "input") = {}
            /\ At(io[p], "update") = {}
            /\ At(io[p], "stdout") = {}

C15_Step ==
    \A p \in Procs :
        (pc[p] = "resolve" /\ pc'[p] # "resolve" /\ UnknownProvider(token[p])) =>
            /\ FailsUnchanged(p)
            /\ NewEvents(p) = <<Ev("die", "ERROR: Unknown registration")>>

C15_UnknownProviderIsFatal == [] C15_NothingSent /\ [][C15_Step]_vars

\* A run without --authorize loaded a record naming an unknown provider and ended.
C15_Witness ==
    /\ pc[1] = "done"
    /\ exitCode[1] = 1
    /\ ~args[1].authorize
    /\ Loaded(1)
    /\ token[1]["registration"] = "bogus"
    /\ io[1][Len(io[1])] = Ev("die", "ERROR: Unknown registration")

(***************************************************************************)
(* C16.  An authorization runs exactly one of the flows authcode,          *)
(* localhostauthcode and devicecode: the one named by --authflow when it   *)
(* is given, else the one named by the record.  When that name is none of  *)
(* the three the run ends with a non-zero status, no request made and the  *)
(* tokens not updated.                                                     *)
(***************************************************************************)
Flows == {"authcode", "localhostauthcode", "devicecode"}

\* The flows whose effects a log shows.
FlowsIn(log) ==
    {f \in Flows : \/ (f = "authcode" /\ At(log, "input") # {})
                  \/ (f = "localhostauthcode" /\ At(log, "bind") # {})
                  \/ (f = "devicecode" /\ DeviceCodeRequests(log) # {})}

C16_OneFlow == \A p \in Procs : Cardinality(FlowsIn(io[p])) <= 1

C16_Step ==
    \A p \in Procs :
        (pc[p] = "authorize" /\ pc'[p] # "authorize") =>
            LET selected == IF args[p].authflow # "" THEN args[p].authflow
                            ELSE token[p]["authflow"]
            IN  IF selected \in Flows
                THEN FlowsIn(NewEvents(p)) = {selected}
                ELSE /\ FailsUnchanged(p)
                     /\ FlowsIn(io'[p]) = {}
                     /\ At(io'[p], "http") = {}
                     /\ At(io'[p], "browser") = {}
                     /\ NewEvents(p) = <<Ev("die", "ERROR: Unknown OAuth2 flow")>>

PipeFailures == {"Difficulty decrypting token file", "CalledProcessError"}

\* The run of p ended at event i of its log, with a non-zero status.
EndedAt(p, i) ==
    /\ i = Len(io[p])
    /\ pc[p] = "done"
    /\ exitCode[p] # 0
    /\ At(io[p], "stdout") = {}

C17_Decryption ==
    \A p \in Procs : \A i \in At(io[p], "decrypt") :
        /\ At(io[p], "decrypt") = {i}
        /\ token[p] = EmptyDict => /\ i < Len(io[p])
                                   /\ io[p][i + 1].op = "die"
                                   /\ EndedAt(p, i + 1)

C17_Encryption ==
    \A p \in Procs : \A i \in At(io[p], "encrypt") :
        /\ i < Len(io[p])
        /\ \/ io[p][i + 1] = Ev("write", Encrypt(io[p][i].arg))
           \/ /\ io[p][i + 1] = Ev("die", "CalledProcessError")
              /\ EndedAt(p, i + 1)

C17_Fatal ==
    \A p \in Procs : \A i \in At(io[p], "die") :
        io[p][i].arg \in PipeFailures =>
            /\ EndedAt(p, i)
            /\ i > 1
            /\ io[p][i - 1].op = IF io[p][i].arg = "CalledProcessError"
                                 THEN "encrypt" ELSE "decrypt"

\* The step that fails on a pipe runs it once and ends the run there.
C17_Step ==
    \A p \in Procs :
        (\E i \in At(NewEvents(p), "die") : NewEvents(p)[i].arg \in PipeFailures) =>
            /\ pc'[p] = "done"
            /\ exitCode'[p] # 0
            /\ NewEvents(p)[Len(NewEvents(p))].op = "die"
            /\ Cardinality(At(NewEvents(p), "encrypt") \cup At(NewEvents(p), "decrypt")) = 1

C17_StoreFailuresAreFatal ==
    [] (C17_Decryption /\ C17_Encryption /\ C17_Fatal) /\ [][C17_Step]_vars

\* A save failed on the encryption pipe after a token request was answered.
C17_Witness ==
    /\ pc[1] = "done"
    /\ exitCode[1] = 1
    /\ At(io[1], "http") # {}
    /\ At(io[1], "update") # {}
    /\ io[1][Len(io[1])] = Ev("die", "CalledProcessError")

\* A load failed on the decryption pipe.
C17_LoadWitness ==
    /\ pc[1] = "done"
    /\ exitCode[1] = 1
    /\ HoldsRecord(file)
    /\ token[1] = EmptyDict
    /\ io[1][Len(io[1])] = Ev("die", "Difficulty decrypting token file")

(***************************************************************************)
(* C18.  With encryption and decryption pipes that copy their input, a     *)
(* record that was saved and is then loaded from the same path, in the     *)
(* same or a later run, is the saved record, field by field.               *)
(***************************************************************************)
\* Two records with the same fields and the same value in each.
SameFields(d, e) == DOMAIN d = DOMAIN e /\ \A k \in DOMAIN d : d[k] = e[k]

\* Every record the program holds survives json.dumps then json.loads, the
\* pipes copying their input, and the pipes of the model as well.
C18_RoundTrip ==
    \A p \in Procs :
        /\ SameFields(JsonLoads(JsonDumps(token[p])), token[p])
        /\ SameFields(JsonLoads(Decrypt(Encrypt(JsonDumps(token[p])))), token[p])

\* A save leaves the dump of the record in the file, nothing else changes the
\* content of an existing file, and a load takes the record from that content.
C18_Step ==
    \A p \in Procs :
        LET writes == At(NewEvents(p), "write")
        IN  /\ writes # {} =>
                /\ file'.exists
                /\ file'.content = Encrypt(JsonDumps(token'[p]))
                /\ SameFields(JsonLoads(Decrypt(file'.content)), token'[p])
            /\ (pc[p] = "load" /\ pc'[p] = "resolve") =>
                /\ file' = file
                /\ file.content = Encrypt(JsonDumps(token'[p]))

C18_ContentKept ==
    (file.exists /\ file'.exists /\ file'.content # file.content) =>
        \E p \in Procs : At(NewEvents(p), "write") # {}

C18_SaveThenLoad == [] C18_RoundTrip /\ [][C18_Step /\ C18_ContentKept]_vars

\* A later run has loaded the record an earlier run saved with its tokens.
C18_Witness ==
    /\ runs = 2
    /\ pc[1] = "resolve"
    /\ Loaded(1)
    /\ Has(token[1], "refresh_token")
    /\ token[1]["refresh_token"] = ""
    /\ token[1]["access_token"] # ""
    /\ file.content = Encrypt(JsonDumps(token[1]))

(***************************************************************************)
(* C19.  The SASL string before encoding is, for the method XOAUTH2,       *)
(*   user=<user> SOH auth=Bearer <token> SOH SOH                           *)
(* and for the method OAUTHBEARER                                          *)
(*   n,a=<user>, SOH host=<host> SOH port=<port> SOH auth=Bearer <token>   *)
(*   SOH SOH                                                               *)
(* with the registration's endpoint of the protocol, the port 993 for      *)
(* imap, 995 for pop, 587 for smtp, and the record's access token.  A      *)
(* protocol or a method other than these ends the run with a non-zero      *)
(* status.                                                                 *)
(***************************************************************************)
\* The user of the string: the one given, else the record's email.
SaslUser(p) == IF args[p].email # "" THEN args[p].email ELSE token[p]["email"]

C19_Expected(p, protocol) ==
    LET host == registration[p][CASE protocol = "imap" -> "imap_endpoint"
                                  [] protocol = "pop" -> "pop_endpoint"
                                  [] protocol = "smtp" -> "smtp_endpoint"]
        port == CASE protocol = "imap" -> "993"
                  [] protocol = "pop" -> "995"
                  [] protocol = "smtp" -> "587"
    IN  IF registration[p]["sasl_method"] = "XOAUTH2"
        THEN <<"user=", SaslUser(p), SOH, "auth=Bearer ", token[p]["access_token"], SOH, SOH>>
        ELSE <<"n,a=", SaslUser(p), ",", SOH, "host=", host, SOH, "port=", port, SOH,
               "auth=Bearer ", token[p]["access_token"], SOH, SOH>>

C19_Step ==
    \A p \in Procs :
        (pc[p] = "final" /\ pc'[p] # "final") =>
            LET new == NewEvents(p)
                method == registration[p]["sasl_method"]
            IN  /\ Len(new) = 1
                /\ IF new[1].op = "sasl"
                   THEN /\ new[1].arg.protocol \in {"imap", "pop", "smtp"}
                        /\ method \in {"XOAUTH2", "OAUTHBEARER"}
                        /\ new[1].arg.s = C19_Expected(p, new[1].arg.protocol)
                        /\ exitCode'[p] = 0
                   ELSE /\ new[1].op = "die"
                        /\ exitCode'[p] # 0
                        /\ pc'[p] = "done"
                        /\ \/ /\ new[1].arg = <<"Unknown SASL method ", method, ".">>
                              /\ method \notin {"XOAUTH2", "OAUTHBEARER"}
                           \/ /\ Len(new[1].arg) = 2
                              /\ new[1].arg[1] = "Unknown protocol "
                              /\ new[1].arg[2] \notin {"imap", "pop", "smtp"}
                /\ method \notin {"XOAUTH2", "OAUTHBEARER"} => new[1].op = "die"

C19_SaslString == [][C19_Step]_vars

\* The OAUTHBEARER string for smtp was built with the user given on the command line.
C19_Witness ==
    /\ pc[1] = "done"
    /\ exitCode[1] = 0
    /\ registration[1]["sasl_method"] = "OAUTHBEARER"
    /\ token[1]["access_token"] = "T"
    /\ io[1] = <<Ev("sasl", [protocol |-> "smtp",
                             s |-> <<"n,a=", "c@d.com", ",", SOH, "host=", "smtp.gmail.com", SOH,
                                     "port=", "587", SOH, "auth=Bearer ", "T", SOH, SOH>>])>>

\* The XOAUTH2 string was built with the record's email.
C19_XOAuth2Witness ==
    /\ pc[1] = "done"
    /\ exitCode[1] = 0
    /\ args[1].email = ""
    /\ Len(io[1]) = 1
    /\ io[1][1].op = "sasl"
    /\ io[1][1].arg.s = <<"user=", "a@b.com", SOH, "auth=Bearer ", "T", SOH, SOH>>

\* A protocol the function does not know ended the run.
C19_UnknownWitness ==
    /\ pc[1] = "done"
    /\ exitCode[1] = 1
    /\ io[1] = <<Ev("die", <<"Unknown protocol ", "ftp">>)>>

(***************************************************************************)
(* C20.  The output is a function of the record, the registration, the     *)
(* format and the protocol: the bare access token for the format token,    *)
(* the base64 of the SASL string for sasl, and the SASL method, one space  *)
(* and that base64 for msasl.  The same valid token in the same format     *)
(* gives the same output, and the output changes neither the record nor    *)
(* the file.                                                               *)
(***************************************************************************)
\* The SASL string of C19 for a user.
C20_Sasl(p, protocol, user) ==
    LET host == registration[p][CASE protocol = "imap" -> "imap_endpoint"
                                  [] protocol = "pop" -> "pop_endpoint"
                                  [] protocol = "smtp" -> "smtp_endpoint"]
        port == CASE protocol = "imap" -> "993"
                  [] protocol = "pop" -> "995"
                  [] protocol = "smtp" -> "587"
    IN  IF registration[p]["sasl_method"] = "XOAUTH2"
        THEN <<"user=", user, SOH, "auth=Bearer ", token[p]["access_token"], SOH, SOH>>
        ELSE <<"n,a=", user, ",", SOH, "host=", host, SOH, "port=", port, SOH,
               "auth=Bearer ", token[p]["access_token"], SOH, SOH>>

\* The line of a format, for a protocol and a user.
C20_Line(p, format, protocol, user) ==
    CASE format = "token" -> <<token[p]["access_token"]>>
      [] format = "sasl" -> <<Base64(C20_Sasl(p, protocol, user))>>
      [] format = "msasl" -> <<registration[p]["sasl_method"], " ",
                               Base64(C20_Sasl(p, protocol, user))>>

\* Every output of p in this step is the line of its format for some protocol
\* and the user u, and the step leaves the record and the file as they were.
C20_Formats(p, u) ==
    \A k \in At(NewEvents(p), "stdout") :
        /\ \E protocol \in {"imap", "pop", "smtp"} :
               NewEvents(p)[k].arg.line = C20_Line(p, NewEvents(p)[k].arg.format, protocol, u)
        /\ At(NewEvents(p), "stdout") = {k}
        /\ k = Len(NewEvents(p))
        /\ token'[p] = token[p]
        /\ file' = file

Tried(log) ==
    LET a == SelectSeq(log, LAMBDA e : e.op = "authenticate")
    IN  [i \in 1..Len(a) |-> a[i].arg.protocol]

\* The logins refused.
Refused(log) == {i \in At(log, "authenticate") : ~log[i].arg.ok}

\* The run of p was cut short by a connection that could not be set up.
Unreachable(p) == \E i \in At(io[p], "die") : io[p][i].arg = "OSError"

\* Tried in order with the record's token, and every refusal reported at once.
C21_InOrder ==
    \A p \in Procs :
        /\ \E n \in 0..3 : Tried(io[p]) = SubSeq(<<"imap", "pop", "smtp">>, 1, n)
        /\ \A i \in At(io[p], "authenticate") :
              /\ io[p][i].arg.sasl = Base64(C20_Sasl(p, io[p][i].arg.protocol, token[p]["email"]))
              /\ ~io[p][i].arg.ok =>
                    /\ i < Len(io[p])
                    /\ io[p][i + 1] = Ev("print", <<io[p][i].arg.protocol, "authentication FAILED">>)

\* As stated: every finished run has tried all three, and fails exactly when
\* a login was refused.
C21_AllChecksAlwaysRun ==
    \A p \in Procs :
        (pc[p] = "done" /\ Has(args[p], "test")) =>
            /\ Tried(io[p]) = <<"imap", "pop", "smtp">>
            /\ exitCode[p] # 0 <=> Refused(io[p]) # {}

\* With every connection set up, all three are tried and the status tells
\* whether a login was refused; a connection that cannot be set up ends the
\* run there with a non-zero status.
C21_Finished ==
    \A p \in Procs :
        (pc[p] = "done" /\ Has(args[p], "test")) =>
            IF Unreachable(p)
            THEN /\ exitCode[p] # 0
                 /\ io[p][Len(io[p])] = Ev("die", "OSError")
            ELSE /\ Tried(io[p]) = <<"imap", "pop", "smtp">>
                 /\ exitCode[p] # 0 <=> Refused(io[p]) # {}
                 /\ exitCode[p] \in {0, 1}

C21_TestChecksAllRun == C21_InOrder /\ C21_Finished

\* The IMAP login was refused, POP and SMTP were tried and accepted, status 1.
C21_Witness ==
    /\ pc[1] = "done"
    /\ exitCode[1] = 1
    /\ Tried(io[1]) = <<"imap", "pop", "smtp">>
    /\ Cardinality(Refused(io[1])) = 1
    /\ \E i \in Refused(io[1]) : io[1][i].arg.protocol = "imap"

\* All three logins were accepted, status 0.
C21_SuccessWitness ==
    /\ pc[1] = "done"
    /\ exitCode[1] = 0
    /\ Tried(io[1]) = <<"imap", "pop", "smtp">>
    /\ Refused(io[1]) = {}

(***************************************************************************)
(* C22.  The poll loop has no bound of its own on the number of polls: it  *)
(* goes on while every answer is authorization_pending and ends, with the  *)
(* tokens or fatally, at the first answer that is not; so it ends when the *)
(* provider comes to answer anything else.                                 *)
(***************************************************************************)
Pending(r) == Has(r, "error") /\ r["error"] = "authorization_pending"

\* An iteration stays in the loop exactly on a pending answer.
C22_Step ==
    \A p \in Procs :
        PollStep(p) =>
            /\ Pending(response'[p]) <=> pc'[p] = "poll"
            /\ ~Pending(response'[p]) =>
                  \/ pc'[p] = "done" /\ exitCode'[p] # 0
                  \/ pc'[p] = "refresh" /\ At(NewEvents(p), "update") # {}

\* While it is in the loop every answer so far was pending, however many.
C22_OnlyPending ==
    \A p \in Procs :
        pc[p] = "poll" =>
            /\ polls[p] > 0 => Pending(response[p])
            /\ At(io[p], "die") = {}
            /\ Cardinality(Grants(io[p], DeviceGrant)) = polls[p]

\* In the loop, the next poll is made or the loop is left (the model follows
\* the loop for MaxPolls iterations).
C22_Progress ==
    \A n \in 0..(MaxPolls - 1) :
        (pc[1] = "poll" /\ polls[1] = n) ~> (pc[1] # "poll" \/ polls[1] = n + 1)

C22_PollLoopEndsOnFirstOtherAnswer ==
    [] C22_OnlyPending /\ [][C22_Step]_vars /\ C22_Progress

\* MaxPolls pending answers, and the loop is still polling.
C22_Witness ==
    /\ pc[1] = "poll"
    /\ polls[1] = MaxPolls
    /\ Cardinality(Grants(io[1], DeviceGrant)) = MaxPolls
    /\ Pending(response[1])

\* The loop ended with the tokens at the answer after two pending ones.
C22_EndWitness ==
    /\ pc[1] = "refresh"
    /\ polls[1] = 3
    /\ ~Has(response[1], "error")
    /\ token[1]["access_token"] = response[1]["access_token"]

(***************************************************************************)
(* C23.  In the flow authcode the code of the exchange is the value of the *)
(* `code` query parameter of a pasted redirect URL, or the input itself    *)
(* when a bare code is entered.  When no code is obtained (empty input, or *)
(* a pasted URL without a `code` parameter) the run ends with a non-zero   *)
(* status before any token request and without updating the record.        *)
(***************************************************************************)
IsUrl(u) == u # <<>> /\ u[1] = UrlPrefix

\* The input carries no code.
NoCode(u) == u = <<>> \/ (IsUrl(u) /\ CodeParameter(u) = <<>>)

\* After input u, the run of p ended with no token request and no update.
EndedWithoutExchange(p) ==
    /\ pc[p] = "done"
    /\ exitCode[p] # 0
    /\ At(io[p], "http") = {}
    /\ At(io[p], "update") = {}
    /\ io[p][Len(io[p])] = Ev("die", "Did not obtain an authcode.")

\* A bare code is sent as entered, and an empty input ends the run.
C23_BareCodeOrNothing ==
    \A p \in Procs : \A i \in At(io[p], "input") :
        LET u == io[p][i].arg
        IN  /\ u = <<>> => EndedWithoutExchange(p)
            /\ (u # <<>> /\ ~IsUrl(u)) =>
                  /\ authcode[p] = u
                  /\ \A h \in Grants(io[p], "authorization_code") : io[p][h].arg.data["code"] = u

\* As stated: an input that carries no code ends the run before any request.
C23_NoCodeIsFatal ==
    \A p \in Procs : \A i \in At(io[p], "input") :
        NoCode(io[p][i].arg) =>
            /\ Grants(io[p], "authorization_code") = {}
            /\ At(io[p], "update") = {}
            /\ pc[p] = "done" => exitCode[p] # 0

(***************************************************************************)
(* C24.  In the flow localhostauthcode the local server handles one        *)
(* request and stops.  A `code` parameter of that request is the           *)
(* authorization code.  A request without one, or a wait the operator      *)
(* interrupts, leaves no code: the run ends with a non-zero status and no  *)
(* token request.  No second request is waited for.                        *)
(***************************************************************************)
C24_OneRequest ==
    \A p \in Procs :
        /\ Cardinality(At(io[p], "handle_request")) <= 1
        /\ \A i \in At(io[p], "handle_request") :
              LET path == io[p][i].arg
              IN  /\ At(io[p], "bind") # {} /\ \A b \in At(io[p], "bind") : b < i
                  /\ At(io[p], "input") = {}
                  /\ IF path = <<>> \/ CodeParameter(path) = <<>>
                     THEN EndedWithoutExchange(p)
                     ELSE /\ authcode[p] = CodeParameter(path)[1]
                          /\ pc[p] # "authorize"
                          /\ \A h \in Grants(io[p], "authorization_code") :
                                /\ i < h
                                /\ io[p][h].arg.data["code"] = CodeParameter(path)[1]

C24_Step ==
    \A p \in Procs :
        (pc[p] = "authorize" /\ pc'[p] # "authorize" /\ AuthFlow(p) = "localhostauthcode") =>
            Cardinality(At(NewEvents(p), "handle_request")) = 1

C24_OneCallbackRequest == [] C24_OneRequest /\ [][C24_Step]_vars

\* The code a callback brought was sent to the token endpoint.
C24_Witness ==
    /\ At(io[1], "handle_request") # {}
    /\ authcode[1] = <<"A", "+", "B">>
    /\ \E h \in Grants(io[1], "authorization_code") : io[1][h].arg.data["code"] = <<"A", "+", "B">>

\* The one request was an error redirect: the run ended.
C24_ErrorWitness ==
    /\ pc[1] = "done"
    /\ exitCode[1] = 1
    /\ \E i \in At(io[1], "handle_request") : io[1][i].arg = <<"/", "?", "error", "=", "x">>

\* The wait was interrupted: the run ended.
C24_InterruptedWitness ==
    /\ pc[1] = "done"
    /\ exitCode[1] = 1
    /\ \E i \in At(io[1], "handle_request") : io[1][i].arg = <<>>

(***************************************************************************)
(* C25.  The code exchange of the flows authcode and localhostauthcode     *)
(* carries grant_type=authorization_code, the code obtained, the client    *)
(* secret, the PKCE verifier, the client id and the redirect URI of the    *)
(* authorization URL; it carries no response_type, login_hint,             *)
(* code_challenge or code_challenge_method.  The verifier is the one the   *)
(* challenge of the authorization URL of this attempt was derived from.    *)
(***************************************************************************)
AuthorizationOnly == {"response_type", "login_hint", "code_challenge", "code_challenge_method"}

C25_Exchange ==
    \A p \in Procs : \A h \in Grants(io[p], "authorization_code") :
        LET d == io[p][h].arg.data
        IN  /\ io[p][h].arg.url = registration[p]["token_endpoint"]
            /\ {"grant_type", "code", "client_secret", "code_verifier", "client_id",
                 "redirect_uri"} \subseteq DOMAIN d
            /\ d["grant_type"] = "authorization_code"
            /\ d["code"] = authcode[p]
            /\ d["client_secret"] = token[p]["client_secret"]
            /\ d["client_id"] = token[p]["client_id"]
            /\ d["code_verifier"] = verifier[p]
            /\ DOMAIN d \cap AuthorizationOnly = {}
            /\ Cardinality({i \in At(io[p], "browser") : i < h}) = 1
            /\ \A i \in At(io[p], "browser") :
                  /\ i < h
                  /\ io[p][i].arg.data["redirect_uri"] = d["redirect_uri"]
                  /\ io[p][i].arg.data["code_challenge"] = Challenge(d["code_verifier"])
                  /\ AuthorizationOnly \subseteq DOMAIN io[p][i].arg.data

C25_Step ==
    \A p \in Procs :
        (pc[p] = "exchange" /\ pc'[p] # "exchange") =>
            /\ Cardinality(Grants(NewEvents(p), "authorization_code")) = 1
            /\ NewEvents(p)[1].op = "http"
            /\ NewEvents(p)[1].arg.data["code"] = authcode[p]

C25_ExchangeRequest == [] C25_Exchange /\ [][C25_Step]_vars

\* An exchange of the flow localhostauthcode, with the second verifier.
C25_Witness ==
    /\ At(io[1], "bind") # {}
    /\ verifier[1] = "v2"
    /\ \E h \in Grants(io[1], "authorization_code") :
          /\ io[1][h].arg.data["code_verifier"] = "v2"
          /\ io[1][h].arg.data["redirect_uri"] = <<"http://localhost:", "50001", "/">>

\* An exchange of the flow authcode, with the redirect URI the record overrides.
C25_OverrideWitness ==
    /\ At(io[1], "input") # {}
    /\ Has(token[1], "redirect_uri")
    /\ \E h \in Grants(io[1], "authorization_code") :
          /\ io[1][h].arg.data["redirect_uri"] = token[1]["redirect_uri"]
          /\ io[1][h].arg.data["redirect_uri"] # registration[1]["redirect_uri"]

(***************************************************************************)
(* C26.  For the provider microsoft with a record whose tenant is not      *)
(* `common`, the run uses the authorize, device-code and token endpoints   *)
(* and the default redirect URI with the record's tenant in the place of   *)
(* `common`, and sends that tenant with every request.  A record without   *)
(* the field tenant is run with the tenant `common` and the endpoints as   *)
(* registered, not refused.  For the provider google no tenant is sent and *)
(* nothing is replaced.                                                    *)
(***************************************************************************)
Microsoft(tenant, path) == <<"https://login.microsoftonline.com/", tenant, path>>

\* The registration C26 describes for a record.
C26_Endpoints(d) ==
    IF d["registration"] = "microsoft"
    THEN [authorize_endpoint |-> Microsoft(d["tenant"], "/oauth2/v2.0/authorize"),
          devicecode_endpoint |-> Microsoft(d["tenant"], "/oauth2/v2.0/devicecode"),
          token_endpoint |-> Microsoft(d["tenant"], "/oauth2/v2.0/token"),
          redirect_uri |-> Microsoft(d["tenant"], "/oauth2/nativeclient")]
    ELSE [k \in {"authorize_endpoint", "devicecode_endpoint", "token_endpoint", "redirect_uri"} |->
            registrations["google"][k]]

\* The requests of a run: those to the provider, and the authorization URL.
Requests(p) ==
    At(io[p], "http") \cup {i \in At(io[p], "browser") : io[p][i].arg.data # EmptyDict}

C26_Requests ==
    \A p \in Procs :
        registration[p] # EmptyDict =>
            LET d == token[p]
                e == C26_Endpoints(d)
            IN  /\ \A k \in DOMAIN e : registration[p][k] = e[k]
                /\ d["registration"] = "microsoft" => Has(d, "tenant")
                /\ \A i \in Requests(p) :
                      LET q == io[p][i].arg
                      IN  /\ IF d["registration"] = "microsoft"
                             THEN Has(q.data, "tenant") /\ q.data["tenant"] = d["tenant"]
                             ELSE ~Has(q.data, "tenant")
                          /\ q.url = IF io[p][i].op = "browser" THEN e["authorize_endpoint"]
                                     ELSE IF i \in DeviceCodeRequests(io[p])
                                     THEN e["devicecode_endpoint"]
                                     ELSE e["token_endpoint"]
                          /\ (/\ io[p][i].op = "browser"
                              /\ ~Has(d, "redirect_uri")
                              /\ At(io[p], "bind") = {}) =>
                                q.data["redirect_uri"] = e["redirect_uri"]

\* The lookup leaves the record's tenant alone, gives a record without one the
\* tenant `common`, and refuses neither.
C26_Step ==
    \A p \in Procs :
        (pc[p] = "resolve" /\ pc'[p] # "resolve" /\ token[p]["registration"] \in {"google", "microsoft"}) =>
            /\ pc'[p] # "done"
            /\ Del(token'[p], {"tenant"}) = Del(token[p], {"tenant"})
            /\ Has(token[p], "tenant") => token'[p] = token[p]
            /\ (token[p]["registration"] = "microsoft" /\ ~Has(token[p], "tenant")) =>
                  /\ token'[p]["tenant"] = "common"
                  /\ registration'[p] = registrations["microsoft"]
            /\ token[p]["registration"] = "google" =>
                  /\ token'[p] = token[p]
                  /\ registration'[p] = registrations["google"]

C26_TenantSubstitution == [] C26_Requests /\ [][C26_Step]_vars

\* A run on the tenant consumers has sent its device-code request and a poll.
C26_Witness ==
    /\ Has(token[1], "tenant")
    /\ token[1]["registration"] = "microsoft"
    /\ token[1]["tenant"] = "consumers"
    /\ \E i \in DeviceCodeRequests(io[1]) :
          io[1][i].arg.url = Microsoft("consumers", "/oauth2/v2.0/devicecode")
    /\ \E h \in Grants(io[1], DeviceGrant) :
          /\ io[1][h].arg.url = Microsoft("consumers", "/oauth2/v2.0/token")
          /\ io[1][h].arg.data["tenant"] = "consumers"

\* A record without tenant was refreshed at the endpoint as registered.
C26_LegacyWitness ==
    /\ Loaded(1)
    /\ Has(token[1], "tenant")
    /\ token[1]["tenant"] = "common"
    /\ token[1]["email"] = LegacyRecord["email"]
    /\ \E h \in Grants(io[1], "refresh_token") :
          /\ io[1][h].arg.url = registrations["microsoft"]["token_endpoint"]
          /\ io[1][h].arg.data["refresh_token"] = "ref0"
          /\ io[1][h].arg.data["tenant"] = "common"

\* An authorization for google: no tenant in the authorization URL.
C26_GoogleWitness ==
    /\ Has(token[1], "registration")
    /\ token[1]["registration"] = "google"
    /\ \E i \in At(io[1], "browser") :
          /\ io[1][i].arg.url = registrations["google"]["authorize_endpoint"]
          /\ ~Has(io[1][i].arg.data, "tenant")

(***************************************************************************)
(* C27.  A token response without `error` that lacks `access_token` or     *)
(* `expires_in` ends the run with a non-zero status: the file is not       *)
(* written with a partly updated record and no token is emitted.  The poll *)
(* loop does not go on to success on such a response.                      *)
(***************************************************************************)
Malformed(r) == ~Has(r, "error") /\ (~Has(r, "access_token") \/ ~Has(r, "expires_in"))

\* The step of p is a token request answered by r.
Answered(p, r) ==
    /\ pc[p] \in {"exchange", "poll", "refresh"}
    /\ At(NewEvents(p), "http") # {}
    /\ response'[p] = r

C27_Step ==
    \A p \in Procs :
        (Answered(p, response'[p]) /\ Malformed(response'[p])) =>
            /\ pc'[p] = "done"
            /\ exitCode'[p] # 0
            /\ file'.exists = file.exists
            /\ file'.content = file.content
            /\ {i \in DOMAIN NewEvents(p) :
                    NewEvents(p)[i].op \in {"touch", "encrypt", "write", "update", "stdout"}} = {}
            /\ At(io'[p], "stdout") = {}
            /\ NewEvents(p)[Len(NewEvents(p))] = Ev("die", "KeyError")

\* The file never holds a record with one of the pair and not the other.
C27_Stored ==
    HoldsRecord(file) =>
        LET d == Stored(file)
        IN  (Has(d, "access_token") /\ d["access_token"] # "") <=>
            (Has(d, "access_token_expiration") /\ d["access_token_expiration"] # <<>>)

C27_MalformedResponseIsFatal == [] C27_Stored /\ [][C27_Step]_vars

\* A poll answered without access_token ended the run.
C27_Witness ==
    /\ pc[1] = "done"
    /\ exitCode[1] = 1
    /\ polls[1] > 0
    /\ response[1] = [expires_in |-> 2]
    /\ io[1][Len(io[1])] = Ev("die", "KeyError")

\* An exchange answered without expires_in ended the run, the file as it was.
C27_ExchangeWitness ==
    /\ pc[1] = "done"
    /\ exitCode[1] = 1
    /\ Grants(io[1], "authorization_code") # {}
    /\ response[1] = [access_token |-> "tok1"]
    /\ HoldsRecord(file)
    /\ Stored(file)["access_token"] = ""
    /\ token[1]["access_token"] = "tok1"

(***************************************************************************)
(* C28.  What an authorization uses in passing is never saved: a record    *)
(* written to the file has only the fields registration, authflow, email,  *)
(* access_token, access_token_expiration, refresh_token, client_id,        *)
(* client_secret and possibly tenant and redirect_uri, and the PKCE        *)
(* verifier and challenge, the authorization code and the device code are  *)
(* in none of them.                                                        *)
(***************************************************************************)
CredentialFields ==
    {"registration", "authflow", "email", "access_token", "access_token_expiration",
     "refresh_token", "client_id", "client_secret", "tenant", "redirect_uri"}

RequiredFields == CredentialFields \ {"tenant", "redirect_uri"}

\* What the run of p has used in passing so far: the verifier and the device
\* code, which are strings, and the challenge and the authorization code,
\* which are sequences of symbols.
Transient(p) ==
    (IF verifier[p] # "" THEN {verifier[p]} ELSE {})
    \cup {io[p][h].arg.data["device_code"] : h \in Grants(io[p], DeviceGrant)}

TransientSeqs(p) ==
    (IF verifier[p] # "" THEN {Challenge(verifier[p])} ELSE {})
    \cup (IF authcode[p] # <<>> THEN {authcode[p]} ELSE {})

\* The record d is a credential record free of what p used in passing.  The
\* expiration is a time (C8) and is not compared with strings.
Clean(d, p) ==
    /\ DOMAIN d \subseteq CredentialFields
    /\ RequiredFields \subseteq DOMAIN d
    /\ \A k \in DOMAIN d \ {"access_token_expiration", "redirect_uri"} : d[k] \notin Transient(p)
    /\ Has(d, "redirect_uri") => d["redirect_uri"] \notin TransientSeqs(p)

\* The record in memory is what json.dumps is given, so it is checked as well
\* as every text that was encrypted and written.
C28_OnlyCredentialFields ==
    \A p \in Procs :
        /\ token[p] # EmptyDict => Clean(token[p], p)
        /\ \A i \in At(io[p], "encrypt") :
              /\ {io[p][i].arg[j][1] : j \in DOMAIN io[p][i].arg} = DOMAIN JsonLoads(io[p][i].arg)
              /\ Clean(JsonLoads(io[p][i].arg), p)
        /\ \A i \in At(io[p], "write") : Clean(JsonLoads(Decrypt(io[p][i].arg)), p)
        /\ (HoldsRecord(file) /\ pc[p] # "idle") => Clean(Stored(file), p)

C28_Step ==
    \A p \in Procs :
        \A i \in At(NewEvents(p), "encrypt") :
            NewEvents(p)[i].arg = JsonDumps(token'[p]) /\ Clean(token'[p], p)

C28_TransientNeverSaved == [] C28_OnlyCredentialFields /\ [][C28_Step]_vars

\* A record was saved after an exchange that used a verifier and a code.
C28_Witness ==
    /\ verifier[1] # ""
    /\ authcode[1] # <<>>
    /\ \E h \in Grants(io[1], "authorization_code") : \E w \in At(io[1], "write") : h < w
    /\ HoldsRecord(file)
    /\ Stored(file)["access_token"] = "tok1"

\* A record was saved after a poll that used a device code.
C28_DeviceWitness ==
    /\ "dc1" \in Transient(1)
    /\ \E h \in Grants(io[1], DeviceGrant) : \E w \in At(io[1], "write") : h < w
    /\ HoldsRecord(file)
    /\ Stored(file)["access_token"] = "tok2"

(***************************************************************************)
(* C29  Two invocations on the same token file.                            *)
(***************************************************************************)
Finished == \A p \in Procs : pc[p] = "done"
Refreshes(p) == Grants(io[p], "refresh_token")
Saved(p) == At(io[p], "write") # {}

\* Each invocation that has sent a refresh request and prints, prints the
\* access token of the answer it got itself.
C29_EmitsOwnToken ==
    \A p \in Procs : \A i \in At(io[p], "stdout") :
        Refreshes(p) # {} =>
            /\ token[p]["access_token"] = response[p]["access_token"]
            /\ io[p][i].arg.format = "token" => io[p][i].arg.line = <<response[p]["access_token"]>>

\* The two invocations have not excluded each other: both have loaded the
\* stored record, both have sent its refresh token, both have saved.
C29_BothRefreshedAndSaved ==
    /\ Finished
    /\ \A p \in Procs :
          /\ io[p][1] = Ev("read", Encrypt(JsonDumps(SharedRecord)))
          /\ \E i \in Refreshes(p) : io[p][i].arg.data["refresh_token"] = "ref0"
          /\ Saved(p)
          /\ exitCode[p] = 0
    /\ token[1]["access_token"] # token[2]["access_token"]

\* C29: two invocations at once on one token file are not excluded from each
\* other; when both have finished, the file holds the complete record that
\* one of the invocations that saved has written (the one that saved last),
\* and each invocation has printed the token it obtained itself.
C29_LastSaverWins ==
    Finished =>
        /\ (\E p \in Procs : Saved(p)) =>
               \E p \in Procs : Saved(p) /\ file.content = Encrypt(JsonDumps(token[p]))
        /\ C29_EmitsOwnToken

\* The file after two overlapping saves: the shorter bytes of the one, then
\* the tail of the longer bytes of the other.
C29_Overlaid ==
    /\ C29_BothRefreshedAndSaved
    /\ file.content[1] = "overlaid"

(***************************************************************************)
(* C30  The first run saves the empty record before anything else.         *)
(***************************************************************************)
NoTokens(d) ==
    /\ d["access_token"] = ""
    /\ d["access_token_expiration"] = <<>>
    /\ d["refresh_token"] = ""

\* The step of lines 280-303 that goes on: the new record, without tokens, is
\* in the file; no provider has been looked up and no request sent.
C30_Step ==
    \A p \in Procs :
        pc[p] = "firstrun" /\ pc'[p] \notin {"firstrun", "done"} =>
            /\ pc'[p] = "resolve"
            /\ NoTokens(token'[p])
            /\ NewEvents(p) # <<>>
            /\ NewEvents(p)[Len(NewEvents(p))] = Ev("write", Encrypt(JsonDumps(token'[p])))
            /\ file'.exists /\ file'.content = Encrypt(JsonDumps(token'[p]))
            /\ registration'[p] = EmptyDict
            /\ At(io'[p], "http") = {}

\* An invocation that has saved but never got tokens to store leaves the
\* file, with the record without tokens.
C30_FileLeft ==
    \A p \in Procs :
        At(io[p], "write") # {} /\ At(io[p], "update") = {} =>
            /\ HoldsRecord(file)
            /\ NoTokens(Stored(file))

\* An invocation without --authorize that has loaded a record without tokens
\* sends nothing and ends fatally, at the provider lookup or at the refresh.
C30_LaterRun ==
    \A p \in Procs :
        token[p] # EmptyDict /\ ~args[p].authorize /\ NoTokens(token[p]) =>
            /\ At(io[p], "http") = {}
            /\ At(io[p], "stdout") = {}
            /\ pc[p] \in {"resolve", "refresh", "done"}
            /\ pc[p] = "done" =>
                  /\ exitCode[p] = 1
                  /\ io[p][Len(io[p])] \in {Ev("die", "ERROR: Unknown registration"),
                                            Ev("die", "ERROR: No refresh token.")}

\* C30: a first run saves the new record, with empty access token, expiration
\* and refresh token, before the provider name is checked and before any
\* request; when the authorization then fails the file is there, and a later
\* run without --authorize on it ends fatally (unknown registration or no
\* refresh token) without any HTTP request.
C30_FirstRunSavesBeforeAuthorizing ==
    [] (C30_FileLeft /\ C30_LaterRun) /\ [][C30_Step]_vars

\* A second run without --authorize has found the record without tokens and
\* has ended for want of a refresh token.
C30_Witness ==
    /\ runs = 2
    /\ pc[1] = "done" /\ exitCode[1] = 1
    /\ ~args[1].authorize
    /\ token[1] # EmptyDict /\ NoTokens(token[1])
    /\ io[1][Len(io[1])] = Ev("die", "ERROR: No refresh token.")
    /\ HoldsRecord(file) /\ Stored(file) = token[1]

\* The same with a provider name that is no registration.
C30_UnknownWitness ==
    /\ runs = 2
    /\ pc[1] = "done" /\ exitCode[1] = 1
    /\ ~args[1].authorize
    /\ token[1] # EmptyDict /\ NoTokens(token[1])
    /\ token[1]["registration"] = "bogus"
    /\ io[1][Len(io[1])] = Ev("die", "ERROR: Unknown registration")

\* A first run has failed at the authorization and has left the file.
C30_FailedWitness ==
    /\ runs = 1
    /\ pc[1] = "done" /\ exitCode[1] = 1
    /\ args[1].authorize
    /\ At(io[1], "write") # {} /\ At(io[1], "http") # {} /\ At(io[1], "update") = {}
    /\ HoldsRecord(file) /\ NoTokens(Stored(file))

(***************************************************************************)
(* C31  What a failed save leaves in the token file.                       *)
(***************************************************************************)
\* The step ends in writetokenfile giving up: at the mode test of line 269 or
\* at the encryption pipe of line 270.
FailedSave(p) ==
    /\ pc[p] \notin {"load", "done"} /\ pc'[p] = "done"
    /\ NewEvents(p) # <<>>
    /\ NewEvents(p)[Len(NewEvents(p))] \in {Ev("die", "Token file has unsafe mode"),
                                            Ev("die", "CalledProcessError")}

\* A failed save over a file that was there keeps its content.
C31_Kept ==
    \A p \in Procs : FailedSave(p) /\ file.exists => file'.exists /\ file'.content = file.content

C31_CiphertextKept == [][C31_Kept]_vars

C31_Unchanged ==
    \A p \in Procs : FailedSave(p) => file'.exists = file.exists /\ file'.content = file.content

\* C31: a save that fails (unsafe permission bits, or an encryption pipe that
\* exits non-zero) leaves the token file as it was before the save began: the
\* previous ciphertext stays, and no file is created where there was none.
C31_FailedSaveLeavesStore == [][C31_Unchanged]_vars

\* A first run whose encryption failed: the file is there, and empty.
C31_CreatedEmpty ==
    /\ pc[1] = "done" /\ exitCode[1] = 1
    /\ io[1] # <<>> /\ io[1][Len(io[1])] = Ev("die", "CalledProcessError")
    /\ At(io[1], "touch") # {}
    /\ file.exists /\ file.content = <<>>

\* A refresh whose save failed over a stored record.
C31_KeptWitness ==
    /\ pc[1] = "done" /\ exitCode[1] = 1
    /\ io[1] # <<>> /\ io[1][Len(io[1])] = Ev("die", "CalledProcessError")
    /\ At(io[1], "update") # {} /\ At(io[1], "read") # {}
    /\ HoldsRecord(file) /\ Stored(file) # token[1]

(***************************************************************************)
(* C32  What a save after the first may change in the stored record.       *)
(***************************************************************************)
FrameFields == {"registration", "authflow", "email", "client_id", "client_secret",
                "redirect_uri"}
TokenFields == {"access_token", "access_token_expiration", "refresh_token"}

\* Record e is record d but for the token fields and a defaulted tenant.
OnlyTokensDiffer(d, e) ==
    /\ \A k \in FrameFields : (Has(d, k) <=> Has(e, k)) /\ (Has(d, k) => d[k] = e[k])
    /\ DOMAIN d \subseteq DOMAIN e
    /\ (DOMAIN e) \ (DOMAIN d) \subseteq {"tenant"}
    /\ Has(d, "tenant") => e["tenant"] = d["tenant"]
    /\ Has(e, "tenant") /\ ~Has(d, "tenant") =>
           e["tenant"] = "common" /\ d["registration"] = "microsoft"

C32_Step ==
    /\ HoldsRecord(file) /\ HoldsRecord(file') =>
           OnlyTokensDiffer(Stored(file), Stored(file'))
    /\ \A p \in Procs : \A i \in At(NewEvents(p), "write") :
           /\ file'.content = NewEvents(p)[i].arg
           /\ HoldsRecord(file) =>
                  \A k \in DOMAIN token'[p] \ (TokenFields \cup {"tenant"}) :
                      Has(Stored(file), k) /\ token'[p][k] = Stored(file)[k]

\* C32: once the first run has created the record, every later save writes
\* the same provider name, flow, e-mail, client id, client secret and
\* redirect URI; only the access token, its expiration and the refresh token
\* (and the tenant "common" given to a Microsoft record stored without one)
\* can differ, and a flow given on the command line is not written.
C32_OnlyTokensChange == [][C32_Step]_vars

\* A run with a flow on the command line other than the stored one has saved
\* new tokens; the stored flow is the old one.
C32_Witness ==
    /\ At(io[1], "read") # {} /\ At(io[1], "write") # {}
    /\ args[1].authflow # "" /\ args[1].authflow # token[1]["authflow"]
    /\ HoldsRecord(file) /\ Stored(file) = token[1]
    /\ Stored(file)["access_token"] # ""

\* A Microsoft record stored without a tenant has been saved again, now with
\* the tenant "common".
C32_LegacyWitness ==
    /\ At(io[1], "read") # {} /\ At(io[1], "write") # {}
    /\ ~Has(JsonLoads(Decrypt(io[1][1].arg)), "tenant")
    /\ HoldsRecord(file) /\ Has(Stored(file), "tenant") /\ Stored(file)["tenant"] = "common"

(***************************************************************************)
(* C33  Authorization, then the refresh check, in one invocation.          *)
(***************************************************************************)
AuthorizationGrants(p) ==
    Grants(io[p], "authorization_code") \cup Grants(io[p], DeviceGrant)

\* With --authorize nothing gets past the authorization: an invocation at the
\* refresh check or beyond has sent a code and stored the answer.
C33_Authorized ==
    \A p \in Procs :
        args[p].authorize /\ (pc[p] \in {"refresh", "final"} \/ At(io[p], "stdout") # {}) =>
            \E i \in AuthorizationGrants(p) : \E j \in At(io[p], "update") : i < j

C33_Step ==
    \A p \in Procs :
        /\ pc[p] = "resolve" /\ args[p].authorize /\ pc'[p] # "resolve" =>
               /\ pc'[p] \in {"authorize", "done"}
               /\ pc'[p] = "done" => exitCode'[p] = 1
        /\ pc[p] = "refresh" /\ args[p].authorize /\ pc'[p] # "refresh"
              /\ ~AccessTokenValid(token[p], now) =>
               /\ At(NewEvents(p), "stdout") = {}
               /\ NewEvents(p) # <<>>
               /\ IF token[p]["refresh_token"] = ""
                  THEN /\ NewEvents(p) = <<Ev("die", "ERROR: No refresh token.")>>
                       /\ pc'[p] = "done" /\ exitCode'[p] = 1
                  ELSE /\ NewEvents(p)[1].op = "http"
                       /\ NewEvents(p)[1].arg.url = registration[p]["token_endpoint"]
                       /\ NewEvents(p)[1].arg.data["grant_type"] = "refresh_token"
                       /\ NewEvents(p)[1].arg.data["refresh_token"] = token[p]["refresh_token"]
                       /\ HoldsRecord(file)
                       /\ Stored(file)["refresh_token"] = token[p]["refresh_token"]

\* C33: with --authorize the authorization flow runs whether or not the
\* cached token is still valid; when the token it has saved is no longer
\* valid at the check that follows, the same invocation sends a refresh
\* request with the refresh token just saved, or ends fatally when that is
\* empty, and prints nothing at that step.
C33_AuthorizeThenRefresh == [] C33_Authorized /\ [][C33_Step]_vars

\* An authorization answered with a lifetime of zero, then the refresh
\* request of the same invocation with the refresh token of that answer.
C33_Witness ==
    /\ args[1].authorize
    /\ \E i \in AuthorizationGrants(1) : \E j \in At(io[1], "update") : \E k \in Refreshes(1) :
          /\ i < j /\ j < k
          /\ io[1][j].arg["expires_in"] = 0
          /\ io[1][k].arg.data["refresh_token"] = io[1][j].arg["refresh_token"]

\* --authorize with a loaded token that is still valid: the flow has started.
C33_CachedWitness ==
    /\ args[1].authorize
    /\ At(io[1], "read") # {} /\ token[1] # EmptyDict
    /\ AccessTokenValid(token[1], now)
    /\ At(io[1], "browser") # {}
    /\ At(io[1], "update") = {}

\* After an authorization the saved token is no longer valid and there is no
\* refresh token: the invocation has ended fatally.
C33_NoRefreshWitness ==
    /\ args[1].authorize
    /\ AuthorizationGrants(1) # {} /\ At(io[1], "update") # {}
    /\ io[1][Len(io[1])] = Ev("die", "ERROR: No refresh token.")
    /\ exitCode[1] = 1

=============================================================================
